---- MODULE Spec2Model ----
(***************************************************************************)
(* Model of the three-stage safety-and-comparison pipeline of              *)
(* mcp_smoke_test:                                                         *)
(*   server/services/query_validator.py          QueryValidator            *)
(*   server/services/execution_plan_analyzer.py  ExecutionPlanAnalyzer     *)
(*   server/services/database_comparer.py        DatabaseComparer          *)
(*                                                                         *)
(* Strings are sequences of one-character strings, so that the regular     *)
(* expressions of the validator are evaluated character by character.      *)
(***************************************************************************)
EXTENDS Integers, Sequences, FiniteSets, TLC

VARIABLES
    \* QueryValidator
    query,              \* the argument of validate
    validation_count,   \* self.validation_count
    blocked_count,      \* self.blocked_count
    v_result,           \* the ValidationResult of the last call (NoResult before)
    \* DatabaseComparer
    comparison_count,   \* self.comparison_count
    temp_tables_created,\* self.temp_tables_created
    clock,              \* datetime.utcnow(), in ticks
    c_pc,               \* where compare_tables stands: the call it awaits
    c_loc,              \* the local variables of compare_tables
    c_stmts,            \* the statements compare_tables passed to executeFn
    c_result,           \* the ComparisonResult just returned
    cl_pc,              \* where cleanup_temp_tables stands
    cl_loc,             \* the local variables of cleanup_temp_tables
    cl_drops,           \* the statements cleanup_temp_tables passed to executeFn
    \* ExecutionPlanAnalyzer
    analysis_count,     \* self.analysis_count
    a_blocked_count,    \* self.blocked_count
    a_pc,               \* where analyze_query_cost stands
    a_loc,              \* the local variables of analyze_query_cost
    a_result,           \* the PlanAnalysis just returned
    \* _get_mismatch_stats and the result built from it, on their own
    s_pc,               \* where the call stands
    s_rows,             \* the rows the statistics query returned
    s_result,           \* the ComparisonResult built from the statistics
    \* comparisons run as concurrent tasks
    k_shared,           \* TRUE: the tasks use one DatabaseComparer instance
    k_clock,            \* datetime.utcnow(), in ticks
    k_registry,         \* temp_tables_created of each instance
    k_task,             \* the frame of each task
    \* the tool compare_database_tables
    o_pc,               \* where the tool stands
    o_role,             \* the role of the caller
    o_configured,       \* settings has comparison_databases
    o_args,             \* the arguments of the call
    o_loc,              \* the local variables of the tool
    o_return,           \* what the tool returned
    \* the comparison query on the rows of the temp tables
    d_pc,               \* where the evaluation stands
    d_source,           \* the rows of the source temp table
    d_target,           \* the rows of the target temp table
    d_mismatch          \* the rows of the mismatch temp table

v_vars == <<query, validation_count, blocked_count, v_result>>

c_vars ==
    <<comparison_count, temp_tables_created, clock, c_pc, c_loc, c_stmts,
      c_result, cl_pc, cl_loc, cl_drops>>

a_vars == <<analysis_count, a_blocked_count, a_pc, a_loc, a_result>>

s_vars == <<s_pc, s_rows, s_result>>

k_vars == <<k_shared, k_clock, k_registry, k_task>>

o_vars == <<o_pc, o_role, o_configured, o_args, o_loc, o_return>>

d_vars == <<d_pc, d_source, d_target, d_mismatch>>

vars == <<v_vars, c_vars, a_vars, s_vars, k_vars, o_vars, d_vars>>

\* the variables of the other components
NotValidator == <<c_vars, a_vars, s_vars, k_vars, o_vars, d_vars>>

NotComparer == <<v_vars, a_vars, s_vars, k_vars, o_vars, d_vars>>

NotAnalyzer == <<v_vars, c_vars, s_vars, k_vars, o_vars, d_vars>>

NotStats == <<v_vars, c_vars, a_vars, k_vars, o_vars, d_vars>>

NotTasks == <<v_vars, c_vars, a_vars, s_vars, o_vars, d_vars>>

NotTool == <<v_vars, c_vars, a_vars, s_vars, k_vars, d_vars>>

NotDiff == <<v_vars, c_vars, a_vars, s_vars, k_vars, o_vars>>

----------------------------------------------------------------------------
(* Characters and strings                                                  *)

\* str.upper() on a lower-case letter
UpperLetter ==
    [a |-> "A", b |-> "B", c |-> "C", d |-> "D", e |-> "E", f |-> "F",
     g |-> "G", h |-> "H", i |-> "I", j |-> "J", k |-> "K", l |-> "L",
     m |-> "M", n |-> "N", o |-> "O", p |-> "P", q |-> "Q", r |-> "R",
     s |-> "S", t |-> "T", u |-> "U", v |-> "V", w |-> "W", x |-> "X",
     y |-> "Y", z |-> "Z"]

LowerLetters == DOMAIN UpperLetter

Digits == {"0","1","2","3","4","5","6","7","8","9"}

\* \w of the re module on the characters the model uses
WordChars ==
    LowerLetters \cup {UpperLetter[c] : c \in LowerLetters}
        \cup Digits \cup {"_"}

IsWordChar(c) == c \in WordChars

\* \s of the re module, and the characters str.strip() removes
Whitespace == {" ", "\n", "\t"}

\* None of Python, as a value that is no string of the model
None == <<"<None>">>

UpperChar(c) == IF c \in LowerLetters THEN UpperLetter[c] ELSE c

\* str.upper()
upper(s) == [i \in 1..Len(s) |-> UpperChar(s[i])]

RECURSIVE lstrip(_)
lstrip(s) ==
    IF s # <<>> /\ s[1] \in Whitespace THEN lstrip(Tail(s)) ELSE s

RECURSIVE rstrip_ws(_)
rstrip_ws(s) ==
    IF s # <<>> /\ s[Len(s)] \in Whitespace
    THEN rstrip_ws(SubSeq(s, 1, Len(s) - 1))
    ELSE s

\* str.strip()
strip(s) == rstrip_ws(lstrip(s))

\* rstrip as it would be if the trailing characters were left in place
rstrip_keep(s, c) == s

\* str.rstrip(chars) for a one-character argument
RECURSIVE rstrip(_, _)
rstrip(s, c) ==
    IF s # <<>> /\ s[Len(s)] = c
    THEN rstrip(SubSeq(s, 1, Len(s) - 1), c)
    ELSE s

\* str.startswith
startswith(s, p) == Len(s) >= Len(p) /\ SubSeq(s, 1, Len(p)) = p

\* the positions at which p occurs in s
Occurrences(s, p) ==
    {i \in 1..(Len(s) - Len(p) + 1) : SubSeq(s, i, i + Len(p) - 1) = p}

\* p in s
Contains(s, p) == Occurrences(s, p) # {}

Min(S) == CHOOSE x \in S : \A y \in S : x <= y

\* str.count for a one-character argument
count(s, c) == Cardinality({i \in 1..Len(s) : s[i] = c})

\* the search as it would be without the word boundaries
HasWholeWord_substring(s, K) == Contains(s, K)

\* re.search(r'\bK\b', s) for a keyword K made of word characters
HasWholeWord(s, K) ==
    \E i \in Occurrences(s, K) :
        /\ (i = 1 \/ ~IsWordChar(s[i - 1]))
        /\ (i + Len(K) - 1 = Len(s) \/ ~IsWordChar(s[i + Len(K)]))

\* str.split(sep): the parts of s between the occurrences of sep
RECURSIVE split(_, _)
split(s, sep) ==
    IF ~Contains(s, sep) THEN <<s>>
    ELSE LET i == Min(Occurrences(s, sep))
         IN  <<SubSeq(s, 1, i - 1)>>
                 \o split(SubSeq(s, i + Len(sep), Len(s)), sep)

----------------------------------------------------------------------------
(* QueryValidator                                                          *)

KW_INSERT == <<"I","N","S","E","R","T">>
KW_UPDATE == <<"U","P","D","A","T","E">>
KW_DELETE == <<"D","E","L","E","T","E">>
KW_DROP == <<"D","R","O","P">>
KW_TRUNCATE == <<"T","R","U","N","C","A","T","E">>
KW_ALTER == <<"A","L","T","E","R">>
KW_CREATE == <<"C","R","E","A","T","E">>
KW_GRANT == <<"G","R","A","N","T">>
KW_REVOKE == <<"R","E","V","O","K","E">>
KW_EXECUTE == <<"E","X","E","C","U","T","E">>
KW_CALL == <<"C","A","L","L">>
KW_EXEC == <<"E","X","E","C">>
KW_MERGE == <<"M","E","R","G","E">>
KW_REPLACE == <<"R","E","P","L","A","C","E">>
KW_RENAME == <<"R","E","N","A","M","E">>
KW_LOCK == <<"L","O","C","K">>
KW_UNLOCK == <<"U","N","L","O","C","K">>
KW_SELECT == <<"S","E","L","E","C","T">>
KW_WITH == <<"W","I","T","H">>
KW_INTO == <<"I","N","T","O">>
KW_UNION == <<"U","N","I","O","N">>
KW_INVALID == <<"I","N","V","A","L","I","D">>

DANGEROUS_KEYWORDS ==
    <<KW_INSERT, KW_UPDATE, KW_DELETE, KW_DROP, KW_TRUNCATE, KW_ALTER,
      KW_CREATE, KW_GRANT, KW_REVOKE, KW_EXECUTE, KW_CALL, KW_EXEC,
      KW_MERGE, KW_REPLACE, KW_RENAME, KW_LOCK, KW_UNLOCK>>

ALLOWED_STARTS == <<KW_SELECT, KW_WITH>>

\* a violation message: its fixed text (kind) and the value formatted into it
Violation(kind, arg) == [kind |-> kind, arg |-> arg]

\* re.sub(r'^/\*.*?\*/', '', s, flags=re.DOTALL)
StripLeadingBlockComment(s) ==
    LET ends == {q \in 3..(Len(s) - 1) : s[q] = "*" /\ s[q + 1] = "/"}
    IN  IF startswith(s, <<"/", "*">>) /\ ends # {}
        THEN SubSeq(s, Min(ends) + 2, Len(s))
        ELSE s

\* re.sub(r'^--.*\n', '', s): "." does not match a newline
StripLeadingLineComment(s) ==
    LET nls == {n \in 3..Len(s) : s[n] = "\n"}
    IN  IF startswith(s, <<"-", "-">>) /\ nls # {}
        THEN SubSeq(s, Min(nls) + 1, Len(s))
        ELSE s

\* re.match(r'^(\w+)', s): the longest run of word characters at the start
RECURSIVE FirstWord(_)
FirstWord(s) ==
    IF s # <<>> /\ IsWordChar(s[1])
    THEN <<s[1]>> \o FirstWord(Tail(s))
    ELSE <<>>

detect_query_type(query_upper) ==
    LET query_clean ==
            StripLeadingLineComment(
                StripLeadingBlockComment(lstrip(query_upper)))
    IN  IF startswith(query_clean, ALLOWED_STARTS[1]) THEN ALLOWED_STARTS[1]
        ELSE IF startswith(query_clean, ALLOWED_STARTS[2])
             THEN ALLOWED_STARTS[2]
        ELSE IF FirstWord(query_clean) # <<>> THEN FirstWord(query_clean)
        ELSE KW_INVALID

\* the check as it would be if it stopped at the first keyword found
check_dangerous_keywords_first(query_upper) ==
    LET found == SelectSeq(DANGEROUS_KEYWORDS,
                           LAMBDA k : HasWholeWord(query_upper, k))
    IN  IF found = <<>> THEN <<>> ELSE <<found[1]>>

\* the keywords found, in the order of DANGEROUS_KEYWORDS
check_dangerous_keywords(query_upper) ==
    SelectSeq(DANGEROUS_KEYWORDS, LAMBDA k : HasWholeWord(query_upper, k))

\* re.search(r'\bSELECT\b.*\bINTO\b', s, re.DOTALL)
has_select_into(query_upper) ==
    \E i \in Occurrences(query_upper, KW_SELECT) :
        /\ (i = 1 \/ ~IsWordChar(query_upper[i - 1]))
        /\ (i + 5 = Len(query_upper) \/ ~IsWordChar(query_upper[i + 6]))
        /\ \E j \in Occurrences(query_upper, KW_INTO) :
              /\ j >= i + 6
              /\ ~IsWordChar(query_upper[j - 1])
              /\ (j + 3 = Len(query_upper) \/ ~IsWordChar(query_upper[j + 4]))

\* re.sub(q + '[^' + q + ']*' + q, '', s) for a quote character q
RECURSIVE RemoveQuoted(_, _)
RemoveQuoted(s, q) ==
    IF s = <<>> THEN <<>>
    ELSE LET closes == {j \in 2..Len(s) : s[j] = q}
         IN  IF s[1] = q /\ closes # {}
             THEN RemoveQuoted(SubSeq(s, Min(closes) + 1, Len(s)), q)
             ELSE <<s[1]>> \o RemoveQuoted(Tail(s), q)

has_multiple_statements(q) ==
    LET query_no_strings == RemoveQuoted(RemoveQuoted(q, "'"), "\"")
        semicolon_count == count(query_no_strings, ";")
    IN  semicolon_count > 1

\* re.findall(r'/\*.*?\*/', s, re.DOTALL)
RECURSIVE BlockComments(_)
BlockComments(s) ==
    IF Len(s) < 4 THEN <<>>
    ELSE LET ends == {q \in 3..(Len(s) - 1) : s[q] = "*" /\ s[q + 1] = "/"}
         IN  IF startswith(s, <<"/", "*">>) /\ ends # {}
             THEN <<SubSeq(s, 1, Min(ends) + 1)>>
                      \o BlockComments(SubSeq(s, Min(ends) + 2, Len(s)))
             ELSE BlockComments(Tail(s))

\* re.findall(r'--.*$', s, re.MULTILINE)
RECURSIVE LineComments(_)
LineComments(s) ==
    IF Len(s) < 2 THEN <<>>
    ELSE LET nls == {n \in 3..Len(s) : s[n] = "\n"}
             last == IF nls = {} THEN Len(s) ELSE Min(nls) - 1
         IN  IF startswith(s, <<"-", "-">>)
             THEN <<SubSeq(s, 1, last)>>
                      \o LineComments(SubSeq(s, last + 1, Len(s)))
             ELSE LineComments(Tail(s))

\* a comment whose upper-cased text has a deny-listed keyword as a substring
CommentIsSuspicious(comment) ==
    \E k \in 1..Len(DANGEROUS_KEYWORDS) :
        Contains(upper(comment), DANGEROUS_KEYWORDS[k])

has_suspicious_comments(q) ==
    \/ \E c \in 1..Len(BlockComments(q)) :
           CommentIsSuspicious(BlockComments(q)[c])
    \/ \E c \in 1..Len(LineComments(q)) :
           CommentIsSuspicious(LineComments(q)[c])

has_union_injection(query_upper) ==
    IF ~Contains(query_upper, KW_UNION) THEN FALSE
    ELSE LET parts == split(query_upper, KW_UNION)
         IN  \E p \in 2..Len(parts) :
                 \E k \in 1..Len(DANGEROUS_KEYWORDS) :
                     HasWholeWord(parts[p], DANGEROUS_KEYWORDS[k])

\* the list as it would be if a check after the first violation added nothing
extend_first(violations, more) ==
    IF violations # <<>> THEN violations ELSE violations \o more

\* violations.append(...), violations.extend([...])
extend(violations, more) == violations \o more

\* QueryValidator.validate: the ValidationResult it returns
validate(q) ==
    IF q = <<>> \/ strip(q) = <<>>
    THEN [is_safe |-> FALSE,
          violations |-> <<Violation("Query is empty", <<>>)>>,
          sanitized_query |-> None,
          query_type |-> KW_INVALID]
    ELSE
    LET stripped == strip(q)
        query_upper == upper(stripped)
        query_type == detect_query_type(query_upper)
        dangerous_found == check_dangerous_keywords(query_upper)
        v1 == IF query_type # ALLOWED_STARTS[1] /\ query_type # ALLOWED_STARTS[2]
              THEN extend(<<>>, <<Violation("Query must start with SELECT or WITH",
                                            query_type)>>)
              ELSE <<>>
        v2 == extend(v1, [k \in 1..Len(dangerous_found) |->
                             Violation("Dangerous keyword", dangerous_found[k])])
        v3 == IF has_select_into(query_upper)
              THEN extend(v2, <<Violation("SELECT INTO is not allowed", <<>>)>>)
              ELSE v2
        v4 == IF has_multiple_statements(stripped)
              THEN extend(v3, <<Violation("Multi-statement queries not allowed",
                                          <<>>)>>)
              ELSE v3
        v5 == IF has_suspicious_comments(stripped)
              THEN extend(v4, <<Violation("Suspicious comments detected", <<>>)>>)
              ELSE v4
        violations ==
            IF has_union_injection(query_upper)
            THEN extend(v5, <<Violation("UNION with dangerous keywords detected",
                                        <<>>)>>)
            ELSE v5
        is_safe == Len(violations) = 0
    IN  [is_safe |-> is_safe,
         violations |-> violations,
         sanitized_query |->
             IF is_safe THEN rstrip(strip(stripped), ";") ELSE None,
         query_type |-> query_type]

----------------------------------------------------------------------------
(* DatabaseComparer                                                        *)

\* None of Python where a message text is expected
NoMessage == "<None>"

\* DatabaseType
SupportedTypes == {"oracle", "mysql", "postgresql"}

\* the dialect strings a caller passes; "sqlite" is outside DatabaseType
DbTypes == SupportedTypes \cup {"sqlite"}

\* the seconds field of strftime('%Y%m%d_%H%M%S')
TicksPerSecond == 2

Timestamp(t) == t \div TicksPerSecond

\* hashlib.md5(source_query + target_query).hexdigest()[:8]: a function of
\* the concatenated text
hash_suffix(config) == config.source_query \o config.target_query

\* f"tmp_src_{timestamp}_{hash_suffix}" and its two siblings
TempName(prefix, timestamp, suffix) ==
    [prefix |-> prefix, timestamp |-> timestamp, suffix |-> suffix]

NoName == TempName("", 0, "")

\* _create_temp_table: the CREATE ... AS <query> statement of a dialect
create_sql(db_type, table_name, q) ==
    [verb |-> CASE db_type = "oracle" -> "CREATE GLOBAL TEMPORARY TABLE AS"
                [] db_type = "mysql" -> "CREATE TEMPORARY TABLE AS"
                [] OTHER -> "CREATE TEMP TABLE AS",
     table |-> table_name, text |-> q]

\* _get_row_count: SELECT COUNT(*) FROM <table>
count_sql(table_name) ==
    [verb |-> "SELECT COUNT(*) FROM", table |-> table_name, text |-> ""]

\* _build_comparison_query: the statement that creates the mismatch table
comparison_query(db_type, temp_mismatch) ==
    [verb |-> CASE db_type = "postgresql" -> "CREATE TEMP TABLE AS FULL OUTER JOIN"
                [] db_type = "mysql" -> "CREATE TEMPORARY TABLE AS LEFT JOIN UNION ALL"
                [] OTHER -> "CREATE GLOBAL TEMPORARY TABLE AS NOT EXISTS UNION ALL",
     table |-> temp_mismatch, text |-> ""]

\* _get_mismatch_stats: SELECT mismatch_type, COUNT(*) ... GROUP BY
stats_sql(temp_mismatch) ==
    [verb |-> "SELECT mismatch_type, COUNT(*) GROUP BY", table |-> temp_mismatch,
     text |-> ""]

\* cleanup_temp_tables: the DROP statement of a dialect
drop_sql(db_type, table_name) ==
    [verb |-> CASE db_type = "oracle" -> "DROP TABLE"
                [] db_type = "mysql" -> "DROP TEMPORARY TABLE IF EXISTS"
                [] OTHER -> "DROP TABLE IF EXISTS",
     table |-> table_name, text |-> ""]

\* what a COUNT(*) call can return: None, [], [[n]], [{'count': n}], [n];
\* numeric is FALSE for a first field that int() rejects
CountValue(shape, value, numeric) ==
    [shape |-> shape, value |-> value, numeric |-> numeric]

CountResults ==
    {CountValue("none", 0, TRUE), CountValue("rows", 2, TRUE),
     CountValue("dicts", 2, TRUE), CountValue("scalars", 2, TRUE),
     CountValue("rows", 0, FALSE)}

\* _get_row_count raises where int() does
row_count_raises(result) ==
    result.shape \in {"rows", "dicts"} /\ ~result.numeric

\* _get_row_count: the count read from the first row, 0 for any other shape
row_count(result) ==
    IF result.shape \in {"rows", "dicts"} THEN result.value ELSE 0

\* a row of the statistics query: a dict, a list/tuple of two fields or more,
\* or anything else; numeric is FALSE for a count that int() rejects
StatsRow(shape, mismatch_type, cnt, numeric) ==
    [shape |-> shape, mismatch_type |-> mismatch_type, count |-> cnt,
     numeric |-> numeric]

MismatchTypes == {"missing_in_target", "missing_in_source", "value_mismatch"}

StatsRows ==
    {StatsRow("dict", t, 3, TRUE) : t \in MismatchTypes \cup {"other"}}
        \cup {StatsRow("dict", "missing_in_target", 0, TRUE),
              StatsRow("tuple", "missing_in_source", 2, TRUE),
              StatsRow("other", "other", 0, TRUE),
              StatsRow("tuple", "value_mismatch", 0, FALSE)}

\* the longest list of rows the statistics query returns
MaxStatsRows == 2

\* what the statistics call can return: a list of rows (None is read as [])
StatsResults == UNION {[1..n -> StatsRows] : n \in 0..MaxStatsRows}

EmptyStats ==
    [missing_in_target |-> 0, missing_in_source |-> 0, mismatched_values |-> 0,
     matching_rows |-> 0, total_mismatches |-> 0]

\* the loop body as it would be if only dict rows were read
StatsStep_dictOnly(stats, row) ==
    IF row.shape # "dict" THEN stats
    ELSE LET counted ==
                 CASE row.mismatch_type = "missing_in_target" ->
                          [stats EXCEPT !.missing_in_target = row.count]
                   [] row.mismatch_type = "missing_in_source" ->
                          [stats EXCEPT !.missing_in_source = row.count]
                   [] row.mismatch_type = "value_mismatch" ->
                          [stats EXCEPT !.mismatched_values = row.count]
                   [] OTHER -> stats
         IN  [counted EXCEPT !.total_mismatches = @ + row.count]

\* the loop body of _get_mismatch_stats for one row
StatsStep(stats, row) ==
    IF row.shape = "other" THEN stats
    ELSE LET counted ==
                 CASE row.mismatch_type = "missing_in_target" ->
                          [stats EXCEPT !.missing_in_target = row.count]
                   [] row.mismatch_type = "missing_in_source" ->
                          [stats EXCEPT !.missing_in_source = row.count]
                   [] row.mismatch_type = "value_mismatch" ->
                          [stats EXCEPT !.mismatched_values = row.count]
                   [] OTHER -> stats
         IN  [counted EXCEPT !.total_mismatches = @ + row.count]

RECURSIVE StatsLoop(_, _)
StatsLoop(stats, rows) ==
    IF rows = <<>> THEN stats
    ELSE StatsLoop(StatsStep(stats, Head(rows)), Tail(rows))

\* _get_mismatch_stats raises where int(count) does
mismatch_stats_raises(result) ==
    \E i \in 1..Len(result) :
        result[i].shape # "other" /\ ~result[i].numeric

\* _get_mismatch_stats: the statistics parsed from the rows
mismatch_stats(result) == StatsLoop(EmptyStats, result)

\* ComparisonResult; the comparison time is in ticks
ComparisonResult(status, src, tgt, same, mit, mis, diff, time, name, e) ==
    [match_status |-> status, total_rows_source |-> src,
     total_rows_target |-> tgt, matching_rows |-> same,
     missing_in_target |-> mit, missing_in_source |-> mis,
     mismatched_rows |-> diff, comparison_time_sec |-> time,
     temp_table_name |-> name, error_message |-> e]

NoComparison == ComparisonResult("", 0, 0, 0, 0, 0, 0, 0, NoName, NoMessage)

\* the result as it would be if the exception text were not passed on
ErrorResult_noMessage(e, comparison_time) ==
    ComparisonResult("error", 0, 0, 0, 0, 0, 0, comparison_time, NoName,
                     NoMessage)

\* the ComparisonResult of the except branch; temp_table_name None is NoName
ErrorResult(e, comparison_time) ==
    ComparisonResult("error", 0, 0, 0, 0, 0, 0, comparison_time, NoName, e)

\* the result as it would be if the matching rows were derived from the counts
SuccessResult_derived(loc, stats, comparison_time) ==
    ComparisonResult(
        IF stats.total_mismatches > 0 THEN "mismatch" ELSE "identical",
        loc.source_count, loc.target_count,
        loc.source_count - stats.missing_in_target - stats.mismatched_values,
        stats.missing_in_target, stats.missing_in_source,
        stats.mismatched_values, comparison_time, loc.temp_mismatch, NoMessage)

\* the ComparisonResult of the normal path
SuccessResult(loc, stats, comparison_time) ==
    ComparisonResult(
        IF stats.total_mismatches > 0 THEN "mismatch" ELSE "identical",
        loc.source_count, loc.target_count, stats.matching_rows,
        stats.missing_in_target, stats.missing_in_source,
        stats.mismatched_values, comparison_time, loc.temp_mismatch, NoMessage)

\* the try block as it would be if it ended after the temp-table creation
InTry_createOnly(step) == step \in {"create_src", "create_tgt"}

\* the steps of compare_tables that stand inside its try block
InTry(step) ==
    step \in {"create_src", "create_tgt", "count_src", "count_tgt",
              "build", "diff", "stats"}

\* the texts of the exceptions executeFn raises
ErrorTexts == {"Table does not exist"}

\* the latest tick of the clock
MaxClock == 2

\* the number of compare_tables calls on one DatabaseComparer instance
MaxComparisons == 2

\* the ComparisonConfig values of the model
Configs ==
    {[source_query |-> "SELECT a", target_query |-> "SELECT b",
      key_columns |-> <<"id">>],
     [source_query |-> "SELECT a", target_query |-> "SELECT b",
      key_columns |-> <<>>]}

NoLocals ==
    [config |-> [source_query |-> "", target_query |-> "", key_columns |-> <<>>],
     db_type |-> "", start_time |-> 0,
     temp_source |-> NoName, temp_target |-> NoName, temp_mismatch |-> NoName,
     source_count |-> 0, target_count |-> 0,
     registered |-> <<>>,       \* the registry when compare_tables was called
     created |-> <<>>,          \* the names this call appended to the registry
     failed |-> "", error |-> ""]   \* the step that raised, and the exception text

\* registered: the registry when cleanup_temp_tables was called;
\* failures: the positions whose DROP raised
NoCleanup ==
    [db_type |-> "", index |-> 0, registered |-> <<>>, failures |-> {}]

ComparerIdle ==
    /\ comparison_count = 0
    /\ temp_tables_created = <<>>
    /\ clock = 0
    /\ c_pc = "idle"
    /\ c_loc = NoLocals
    /\ c_stmts = <<>>
    /\ c_result = NoComparison
    /\ cl_pc = "idle"
    /\ cl_loc = NoCleanup
    /\ cl_drops = <<>>

\* the ticks an awaited call may take
Delays == {d \in 0..1 : clock + d <= MaxClock}

\* the registry as it would be if a new name were put in front
registry_append_front(registry, name) == <<name>> \o registry

\* self.temp_tables_created.append(name)
registry_append(registry, name) == Append(registry, name)

\* an exception raised at a step of compare_tables: the except branch builds
\* the error result; outside the try block it would reach the caller
Raise(step, e, now) ==
    /\ c_loc' = [c_loc EXCEPT !.failed = step, !.error = e]
    /\ IF InTry(step)
       THEN /\ c_pc' = "returned"
            /\ c_result' = ErrorResult(e, now - c_loc.start_time)
       ELSE /\ c_pc' = "raised"
            /\ c_result' = NoComparison

Sequential == c_pc \in {"idle", "returned"} /\ cl_pc \in {"idle", "returned"}

\* compare_tables up to its first await; the caller is done with the
\* earlier calls
CompareCall ==
    /\ UNCHANGED NotComparer
    /\ Sequential
    /\ comparison_count < MaxComparisons
    /\ \E config \in Configs, db_type \in DbTypes :
         LET suffix == hash_suffix(config)
             loc == [NoLocals EXCEPT
                        !.config = config, !.db_type = db_type,
                        !.start_time = clock,
                        !.registered = temp_tables_created,
                        !.temp_source = TempName("tmp_src", Timestamp(clock), suffix),
                        !.temp_target = TempName("tmp_tgt", Timestamp(clock), suffix),
                        !.temp_mismatch = TempName("tmp_mismatch", Timestamp(clock), suffix)]
         IN  /\ comparison_count' = comparison_count + 1
             /\ IF db_type \in SupportedTypes
                THEN /\ c_loc' = loc
                     /\ c_stmts' = <<create_sql(db_type, loc.temp_source,
                                                config.source_query)>>
                     /\ c_pc' = "create_src"
                     /\ c_result' = NoComparison
                ELSE \* _create_temp_table raises ValueError
                     /\ c_stmts' = <<>>
                     /\ c_loc' = [loc EXCEPT !.failed = "create_src",
                                     !.error = "Unsupported database type: " \o db_type]
                     /\ c_pc' = "returned"
                     /\ c_result' = ErrorResult(
                            "Unsupported database type: " \o db_type, 0)
    /\ cl_pc' = "idle"
    /\ cl_loc' = NoCleanup
    /\ cl_drops' = <<>>
    /\ UNCHANGED <<temp_tables_created, clock>>

\* the CREATE of the source table completes
CreateSourceDone ==
    /\ UNCHANGED NotComparer
    /\ c_pc = "create_src"
    /\ \E d \in Delays :
         /\ clock' = clock + d
         /\ \/ \E e \in ErrorTexts :
                 /\ Raise("create_src", e, clock')
                 /\ UNCHANGED <<temp_tables_created, c_stmts>>
            \/ /\ temp_tables_created' =
                      registry_append(temp_tables_created, c_loc.temp_source)
               /\ c_stmts' = Append(c_stmts,
                      create_sql(c_loc.db_type, c_loc.temp_target,
                                 c_loc.config.target_query))
               /\ c_pc' = "create_tgt"
               /\ c_loc' = [c_loc EXCEPT !.created = Append(@, c_loc.temp_source)]
               /\ UNCHANGED c_result
    /\ UNCHANGED <<comparison_count, cl_pc, cl_loc, cl_drops>>

\* the step as it would be if both COUNTs were started together
CreateTargetDone_gather ==
    /\ UNCHANGED NotComparer
    /\ c_pc = "create_tgt"
    /\ \E d \in Delays :
         /\ clock' = clock + d
         /\ \/ \E e \in ErrorTexts :
                 /\ Raise("create_tgt", e, clock')
                 /\ UNCHANGED <<temp_tables_created, c_stmts>>
            \/ /\ temp_tables_created' =
                      registry_append(temp_tables_created, c_loc.temp_target)
               /\ c_stmts' = c_stmts \o <<count_sql(c_loc.temp_source),
                                          count_sql(c_loc.temp_target)>>
               /\ c_pc' = "count_src"
               /\ c_loc' = [c_loc EXCEPT !.created = Append(@, c_loc.temp_target)]
               /\ UNCHANGED c_result
    /\ UNCHANGED <<comparison_count, cl_pc, cl_loc, cl_drops>>

\* the CREATE of the target table completes
CreateTargetDone ==
    /\ UNCHANGED NotComparer
    /\ c_pc = "create_tgt"
    /\ \E d \in Delays :
         /\ clock' = clock + d
         /\ \/ \E e \in ErrorTexts :
                 /\ Raise("create_tgt", e, clock')
                 /\ UNCHANGED <<temp_tables_created, c_stmts>>
            \/ /\ temp_tables_created' =
                      registry_append(temp_tables_created, c_loc.temp_target)
               /\ c_stmts' = Append(c_stmts, count_sql(c_loc.temp_source))
               /\ c_pc' = "count_src"
               /\ c_loc' = [c_loc EXCEPT !.created = Append(@, c_loc.temp_target)]
               /\ UNCHANGED c_result
    /\ UNCHANGED <<comparison_count, cl_pc, cl_loc, cl_drops>>

\* the COUNT of the source table completes
CountSourceDone ==
    /\ UNCHANGED NotComparer
    /\ c_pc = "count_src"
    /\ \E d \in Delays :
         /\ clock' = clock + d
         /\ \/ \E e \in ErrorTexts :
                 /\ Raise("count_src", e, clock')
                 /\ UNCHANGED c_stmts
            \/ \E result \in CountResults :
                 IF row_count_raises(result)
                 THEN /\ Raise("count_src", "invalid literal for int()", clock')
                      /\ UNCHANGED c_stmts
                 ELSE /\ c_loc' = [c_loc EXCEPT !.source_count = row_count(result)]
                      /\ c_stmts' = Append(c_stmts, count_sql(c_loc.temp_target))
                      /\ c_pc' = "count_tgt"
                      /\ UNCHANGED c_result
    /\ UNCHANGED <<comparison_count, temp_tables_created, cl_pc, cl_loc,
                   cl_drops>>

\* the COUNT of the target table completes; the comparison query is built
CountTargetDone ==
    /\ UNCHANGED NotComparer
    /\ c_pc = "count_tgt"
    /\ \E d \in Delays :
         /\ clock' = clock + d
         /\ \/ \E e \in ErrorTexts :
                 /\ Raise("count_tgt", e, clock')
                 /\ UNCHANGED c_stmts
            \/ \E result \in CountResults :
                 IF row_count_raises(result)
                 THEN /\ Raise("count_tgt", "invalid literal for int()", clock')
                      /\ UNCHANGED c_stmts
                 ELSE IF c_loc.config.key_columns = <<>>
                 THEN \* config.key_columns[0] raises IndexError
                      /\ Raise("build", "list index out of range", clock')
                      /\ UNCHANGED c_stmts
                 ELSE /\ c_loc' = [c_loc EXCEPT !.target_count = row_count(result)]
                      /\ c_stmts' = Append(c_stmts,
                             comparison_query(c_loc.db_type, c_loc.temp_mismatch))
                      /\ c_pc' = "diff"
                      /\ UNCHANGED c_result
    /\ UNCHANGED <<comparison_count, temp_tables_created, cl_pc, cl_loc,
                   cl_drops>>

\* the comparison query completes
DiffDone ==
    /\ UNCHANGED NotComparer
    /\ c_pc = "diff"
    /\ \E d \in Delays :
         /\ clock' = clock + d
         /\ \/ \E e \in ErrorTexts :
                 /\ Raise("diff", e, clock')
                 /\ UNCHANGED <<temp_tables_created, c_stmts>>
            \/ /\ temp_tables_created' =
                      registry_append(temp_tables_created, c_loc.temp_mismatch)
               /\ c_stmts' = Append(c_stmts, stats_sql(c_loc.temp_mismatch))
               /\ c_pc' = "stats"
               /\ c_loc' = [c_loc EXCEPT !.created = Append(@, c_loc.temp_mismatch)]
               /\ UNCHANGED c_result
    /\ UNCHANGED <<comparison_count, cl_pc, cl_loc, cl_drops>>

\* the statistics query completes; compare_tables returns
StatsDone ==
    /\ UNCHANGED NotComparer
    /\ c_pc = "stats"
    /\ \E d \in Delays :
         /\ clock' = clock + d
         /\ \/ \E e \in ErrorTexts : Raise("stats", e, clock')
            \/ \E result \in StatsResults :
                 IF mismatch_stats_raises(result)
                 THEN Raise("stats", "invalid literal for int()", clock')
                 ELSE /\ c_result' = SuccessResult(c_loc, mismatch_stats(result),
                                                   clock' - c_loc.start_time)
                      /\ c_pc' = "returned"
                      /\ UNCHANGED c_loc
    /\ UNCHANGED <<comparison_count, temp_tables_created, c_stmts, cl_pc,
                   cl_loc, cl_drops>>

\* the loop as it would be if a failing DROP ended it
next_index_break(index, raised) ==
    IF raised THEN Len(temp_tables_created) + 1 ELSE index + 1

\* the for loop of cleanup_temp_tables goes on with the next name, whether
\* the DROP succeeded or its exception was caught and logged
next_index(index, raised) == index + 1

\* the loop as it would be if it issued a DROP whatever the dialect is
CleanupLoop_anyDialect(loc, index, drops) ==
    IF index <= Len(temp_tables_created)
    THEN /\ cl_pc' = "drop"
         /\ cl_loc' = [loc EXCEPT !.index = index]
         /\ cl_drops' =
                Append(drops, drop_sql(loc.db_type, temp_tables_created[index]))
         /\ UNCHANGED temp_tables_created
    ELSE /\ cl_pc' = "returned"
         /\ cl_loc' = [loc EXCEPT !.index = index]
         /\ cl_drops' = drops
         /\ temp_tables_created' = <<>>

\* the for loop of cleanup_temp_tables from position index up to its next
\* await: an unsupported dialect skips every name, a supported one issues
\* the DROP of the name at index; past the end the registry is cleared
CleanupLoop(loc, index, drops) ==
    IF loc.db_type \in SupportedTypes /\ index <= Len(temp_tables_created)
    THEN /\ cl_pc' = "drop"
         /\ cl_loc' = [loc EXCEPT !.index = index]
         /\ cl_drops' =
                Append(drops, drop_sql(loc.db_type, temp_tables_created[index]))
         /\ UNCHANGED temp_tables_created
    ELSE /\ cl_pc' = "returned"
         /\ cl_loc' = [loc EXCEPT !.index = index]
         /\ cl_drops' = drops
         /\ temp_tables_created' = <<>>

\* cleanup_temp_tables up to its first await; the caller is done with the
\* result of the comparison
CleanupCall ==
    /\ UNCHANGED NotComparer
    /\ Sequential
    /\ \E db_type \in DbTypes :
         CleanupLoop([NoCleanup EXCEPT !.db_type = db_type,
                                       !.registered = temp_tables_created],
                     1, <<>>)
    /\ c_pc' = "idle"
    /\ c_loc' = NoLocals
    /\ c_stmts' = <<>>
    /\ c_result' = NoComparison
    /\ UNCHANGED <<comparison_count, clock>>

\* a DROP completes or raises; the loop goes on
CleanupDropDone ==
    /\ UNCHANGED NotComparer
    /\ cl_pc = "drop"
    /\ \E d \in Delays : clock' = clock + d
    /\ \E raised \in BOOLEAN :
         CleanupLoop([cl_loc EXCEPT !.failures =
                         IF raised THEN @ \cup {cl_loc.index} ELSE @],
                     next_index(cl_loc.index, raised), cl_drops)
    /\ UNCHANGED <<comparison_count, c_pc, c_loc, c_stmts, c_result>>

----------------------------------------------------------------------------
(* _get_mismatch_stats and the result compare_tables builds from it, as a  *)
(* function of the rows the statistics query returns                       *)

\* the counts a report of the mismatch table carries
ReportCounts == {0, 5, 20}

ReportRows ==
    {StatsRow(shape, t, n, TRUE) :
        shape \in {"dict", "tuple"}, t \in MismatchTypes, n \in ReportCounts}

\* what GROUP BY mismatch_type returns: at most one row for each type
Reports ==
    {rows \in UNION {[1..n -> ReportRows] : n \in 0..Cardinality(MismatchTypes)} :
        \A i, j \in 1..Len(rows) :
            i # j => rows[i].mismatch_type # rows[j].mismatch_type}

StatsInputs == StatsResults \cup Reports

StatsIdle ==
    /\ s_pc = "idle"
    /\ s_rows = <<>>
    /\ s_result = NoComparison

\* the statistics step of compare_tables on the rows s_rows: the result of
\* the normal path, or the error result when int() raises
GetMismatchStats ==
    /\ UNCHANGED NotStats
    /\ s_pc = "called"
    /\ s_pc' = "returned"
    /\ s_result' =
           IF mismatch_stats_raises(s_rows)
           THEN ErrorResult("invalid literal for int()", 0)
           ELSE SuccessResult(NoLocals, mismatch_stats(s_rows), 0)
    /\ UNCHANGED s_rows

StatsNext == GetMismatchStats

ComparerNext ==
    \/ CompareCall
    \/ CreateSourceDone
    \/ CreateTargetDone
    \/ CountSourceDone
    \/ CountTargetDone
    \/ DiffDone
    \/ StatsDone
    \/ CleanupCall
    \/ CleanupDropDone

----------------------------------------------------------------------------
(* Comparisons as concurrent tasks: each task calls compare_tables and     *)
(* then cleanup_temp_tables; a step of a task runs from one await to the   *)
(* next.  The tasks use one shared instance or one instance each.          *)

Tasks == {1, 2}

\* the dialect of the connections the tasks work on
SessionType == "postgresql"

\* query pairs: the first two differ and have the same concatenated text
TaskConfigs ==
    {[source_query |-> "SELECT a", target_query |-> "SELECT bSELECT c",
      key_columns |-> <<"id">>],
     [source_query |-> "SELECT aSELECT b", target_query |-> "SELECT c",
      key_columns |-> <<"id">>],
     [source_query |-> "SELECT a", target_query |-> "SELECT b",
      key_columns |-> <<"id">>]}

\* the instance as it would be if every task were handed the same one
InstanceOf_same(t) == 1

\* the DatabaseComparer instance a task calls
InstanceOf(t) == IF k_shared THEN 1 ELSE t

\* created: the names the task appended; drops: the names whose DROP its
\* cleanup passed to executeFn; index: the position of its cleanup loop
NoTask ==
    [pc |-> "idle", config |-> [source_query |-> "", target_query |-> "",
                                key_columns |-> <<>>],
     start_time |-> 0, created |-> <<>>, drops |-> <<>>, index |-> 0]

\* temp_source, temp_target, temp_mismatch of a task
TaskNames(f) ==
    [prefix \in {"tmp_src", "tmp_tgt", "tmp_mismatch"} |->
        TempName(prefix, Timestamp(f.start_time), hash_suffix(f.config))]

ConcurrentIdle ==
    /\ k_shared = FALSE
    /\ k_clock = 0
    /\ k_registry = [i \in Tasks |-> <<>>]
    /\ k_task = [t \in Tasks |-> NoTask]

\* the awaits of compare_tables
Awaits == {"create_src", "create_tgt", "count_src", "count_tgt", "diff", "stats"}

\* the await that follows an await that succeeded
NextAwait(pc) ==
    CASE pc = "create_src" -> "create_tgt"
      [] pc = "create_tgt" -> "count_src"
      [] pc = "count_src" -> "count_tgt"
      [] pc = "count_tgt" -> "diff"
      [] pc = "diff" -> "stats"
      [] OTHER -> "returned"

\* the name compare_tables registers when an await succeeded, if any
RegisteredAfter(f, pc) ==
    CASE pc = "create_src" -> <<TaskNames(f)["tmp_src"]>>
      [] pc = "create_tgt" -> <<TaskNames(f)["tmp_tgt"]>>
      [] pc = "diff" -> <<TaskNames(f)["tmp_mismatch"]>>
      [] OTHER -> <<>>

\* time passes
TaskTick ==
    /\ UNCHANGED NotTasks
    /\ k_clock < MaxClock
    /\ k_clock' = k_clock + 1
    /\ UNCHANGED <<k_shared, k_registry, k_task>>

\* a task calls compare_tables, which runs up to its first await
TaskCompareCall ==
    /\ UNCHANGED NotTasks
    /\ \E t \in Tasks, config \in TaskConfigs :
         /\ k_task[t].pc = "idle"
         /\ k_task' = [k_task EXCEPT ![t] =
                [NoTask EXCEPT !.pc = "create_src", !.config = config,
                               !.start_time = k_clock]]
    /\ UNCHANGED <<k_shared, k_clock, k_registry>>

\* the statement a task awaits raises: the except branch returns
TaskAwaitRaises ==
    /\ UNCHANGED NotTasks
    /\ \E t \in Tasks :
         /\ k_task[t].pc \in Awaits
         /\ k_task' = [k_task EXCEPT ![t].pc = "returned"]
    /\ UNCHANGED <<k_shared, k_clock, k_registry>>

\* the statement a task awaits completes: the created name is registered
\* and the task goes on to its next await or returns
TaskAwaitDone ==
    /\ UNCHANGED NotTasks
    /\ \E t \in Tasks :
         LET f == k_task[t]
             added == RegisteredAfter(f, f.pc)
         IN  /\ f.pc \in Awaits
             /\ k_registry' =
                    [k_registry EXCEPT ![InstanceOf(t)] = @ \o added]
             /\ k_task' = [k_task EXCEPT ![t].pc = NextAwait(f.pc),
                                         ![t].created = @ \o added]
    /\ UNCHANGED <<k_shared, k_clock>>

\* the for loop of cleanup_temp_tables of task t, on the list as it is now,
\* from position index up to its next await; past the end the list is
\* cleared
TaskCleanupLoop(t, index) ==
    LET registry == k_registry[InstanceOf(t)]
    IN  IF index <= Len(registry)
        THEN /\ k_task' = [k_task EXCEPT ![t].pc = "drop", ![t].index = index,
                                         ![t].drops = Append(@, registry[index])]
             /\ UNCHANGED k_registry
        ELSE /\ k_task' = [k_task EXCEPT ![t].pc = "done", ![t].index = index]
             /\ k_registry' = [k_registry EXCEPT ![InstanceOf(t)] = <<>>]

\* a task whose comparison has returned calls cleanup_temp_tables
TaskCleanupCall ==
    /\ UNCHANGED NotTasks
    /\ \E t \in Tasks :
         /\ k_task[t].pc = "returned"
         /\ TaskCleanupLoop(t, 1)
    /\ UNCHANGED <<k_shared, k_clock>>

\* the DROP a task awaits completes or raises; its loop goes on
TaskDropDone ==
    /\ UNCHANGED NotTasks
    /\ \E t \in Tasks :
         /\ k_task[t].pc = "drop"
         /\ TaskCleanupLoop(t, k_task[t].index + 1)
    /\ UNCHANGED <<k_shared, k_clock>>

ConcurrentNext ==
    \/ TaskTick
    \/ TaskCompareCall
    \/ TaskAwaitRaises
    \/ TaskAwaitDone
    \/ TaskCleanupCall
    \/ TaskDropDone

----------------------------------------------------------------------------
(* ExecutionPlanAnalyzer                                                   *)
(* Times are in milliseconds.  The text explainFn returns is modelled by   *)
(* what the parsers read from it: the number the cost pattern captures     *)
(* (-1: no match), whether float() accepts it, the numbers the rows        *)
(* pattern captures, and the marker texts it contains.                     *)

MAX_EXECUTION_TIME_SEC == 300

WARN_ROWS == 1000000

PlanText(cost, cost_ok, rows, marks) ==
    [cost |-> cost, cost_ok |-> cost_ok, rows |-> rows, marks |-> marks]

EmptyPlan == PlanText(-1, TRUE, <<>>, {})

\* the values are such that every division below is exact
CostValues == {-1, 1000, 100000, 200000, 300000, 300100, 3000000, 3000100}

RowsValues ==
    {<<>>, <<1200000>>, <<2000000>>, <<4000000>>, <<20000, 15000>>,
     <<20000, 15050>>}

MarkSets ==
    {{}, {"TABLE ACCESS FULL"}, {"CARTESIAN"}, {"ALL", "NULL"},
     {"Using filesort"}, {"Using temporary"},
     {"Using filesort", "Using temporary"}, {"Seq Scan"},
     {"Nested Loop", "Sort"}}

PlanTexts ==
    {PlanText(c, TRUE, r, m) : c \in CostValues, r \in RowsValues, m \in MarkSets}
        \cup {PlanText(1000, FALSE, <<>>, {})}

PlanAnalysis(acceptable, time, rows, cost, level, scan, advice, plan, e) ==
    [is_acceptable |-> acceptable, estimated_time_ms |-> time,
     estimated_rows |-> rows, estimated_cost |-> cost, cost_level |-> level,
     has_full_table_scan |-> scan, recommendations |-> advice,
     raw_plan |-> plan, error_message |-> e]

NoAnalysis == PlanAnalysis(FALSE, 0, 0, 0, "", FALSE, <<>>, EmptyPlan, NoMessage)

\* _determine_cost_level
determine_cost_level(estimated_time_ms) ==
    IF estimated_time_ms > MAX_EXECUTION_TIME_SEC * 1000 THEN "EXCESSIVE"
    ELSE IF estimated_time_ms > 180 * 1000 THEN "HIGH"
    ELSE IF estimated_time_ms > 60 * 1000 THEN "MEDIUM"
    ELSE "LOW"

\* time * (rows / WARN_ROWS)
ScaleByRows(time, rows) == (time * (rows \div 100000)) \div 10

FirstRows(plan) == IF plan.rows = <<>> THEN 0 ELSE plan.rows[1]

RECURSIVE Product(_)
Product(numbers) ==
    IF numbers = <<>> THEN 1 ELSE Head(numbers) * Product(Tail(numbers))

IfMark(plan, mark, recommendation) ==
    IF mark \in plan.marks THEN <<recommendation>> ELSE <<>>

\* _parse_oracle_plan
parse_oracle_plan(plan) ==
    LET found == IF plan.cost >= 0 THEN plan.cost ELSE 0
        cost == IF "CARTESIAN" \in plan.marks THEN found * 10 ELSE found
        rows == FirstRows(plan)
        time == IF rows > WARN_ROWS THEN ScaleByRows(cost, rows) ELSE cost
    IN  PlanAnalysis(TRUE, time, rows, cost, determine_cost_level(time),
            "TABLE ACCESS FULL" \in plan.marks,
            IfMark(plan, "TABLE ACCESS FULL", "Full table scan detected")
                \o IfMark(plan, "CARTESIAN", "Cartesian product detected")
                \o (IF rows > WARN_ROWS THEN <<"High row count">> ELSE <<>>),
            plan, NoMessage)

\* _parse_mysql_plan
parse_mysql_plan(plan) ==
    LET total_rows ==
            IF plan.rows = <<>> THEN 0
            ELSE IF Len(plan.rows) > 1 THEN Product(plan.rows)
            ELSE plan.rows[1]
        scan == "ALL" \in plan.marks
        cost == (IF "Using filesort" \in plan.marks THEN 1000 ELSE 0)
                    + (IF "Using temporary" \in plan.marks THEN 500 ELSE 0)
        time == total_rows \div 1000 + cost
    IN  PlanAnalysis(TRUE, time, total_rows, cost, determine_cost_level(time),
            scan,
            IfMark(plan, "ALL", "Full table scan detected")
                \o IfMark(plan, "Using filesort", "Filesort detected")
                \o IfMark(plan, "Using temporary", "Temporary table used")
                \o (IF "NULL" \in plan.marks /\ scan
                    THEN <<"No index used">> ELSE <<>>),
            plan, NoMessage)

\* _parse_postgresql_plan raises where float() does
parse_postgresql_plan_raises(plan) == plan.cost >= 0 /\ ~plan.cost_ok

\* _parse_postgresql_plan
parse_postgresql_plan(plan) ==
    LET cost == IF plan.cost >= 0 THEN plan.cost ELSE 0
        rows == FirstRows(plan)
        time == IF rows > WARN_ROWS
                THEN ScaleByRows(cost \div 10, rows) \div 2
                ELSE cost \div 10
    IN  PlanAnalysis(TRUE, time, rows, cost, determine_cost_level(time),
            "Seq Scan" \in plan.marks,
            IfMark(plan, "Seq Scan", "Sequential scan detected")
                \o (IF "Nested Loop" \in plan.marks /\ rows > 10000
                    THEN <<"Nested loop with large dataset">> ELSE <<>>)
                \o IfMark(plan, "Sort", "Sort operation detected")
                \o (IF rows > WARN_ROWS THEN <<"High row count">> ELSE <<>>),
            plan, NoMessage)

\* the verdict as it would be if it were left as the dialect parser set it
is_acceptable_asParsed(analysis) == analysis.is_acceptable

\* the verdict analyze_query_cost sets: the estimated time is within the limit
is_acceptable(analysis) ==
    analysis.estimated_time_ms <= MAX_EXECUTION_TIME_SEC * 1000

\* the PlanAnalysis of the except branch
FailureResult(e) ==
    PlanAnalysis(FALSE, 0, 0, 0, "EXCESSIVE", FALSE, <<>>, EmptyPlan,
                 "Plan analysis failed: " \o e)

\* the try block as it would be if it began after the EXPLAIN query is built
AnalysisInTry_afterBuild(step) == step \in {"explain", "parse"}

\* the steps of analyze_query_cost that stand inside its try block
AnalysisInTry(step) == step \in {"build", "explain", "parse"}

\* the texts of the exceptions explainFn raises
ExplainErrors == {"Explain failed", "ORA-00942"}

\* the number of analyze_query_cost calls on one analyzer instance
MaxAnalyses == 2

NoAnalysisLocals == [db_type |-> "", failed |-> "", error |-> ""]

AnalyzerIdle ==
    /\ analysis_count = 0
    /\ a_blocked_count = 0
    /\ a_pc = "idle"
    /\ a_loc = NoAnalysisLocals
    /\ a_result = NoAnalysis

\* an exception raised at a step of analyze_query_cost
AnalysisRaise(step, e) ==
    /\ a_loc' = [a_loc EXCEPT !.failed = step, !.error = e]
    /\ IF AnalysisInTry(step)
       THEN /\ a_pc' = "returned"
            /\ a_result' = FailureResult(e)
       ELSE /\ a_pc' = "raised"
            /\ a_result' = NoAnalysis

\* analyze_query_cost up to its await of explainFn
AnalyzeCall ==
    /\ UNCHANGED NotAnalyzer
    /\ a_pc \in {"idle", "returned"}
    /\ analysis_count < MaxAnalyses
    /\ analysis_count' = analysis_count + 1
    /\ \E db_type \in DbTypes :
         IF db_type \in SupportedTypes
         THEN /\ a_loc' = [NoAnalysisLocals EXCEPT !.db_type = db_type]
              /\ a_pc' = "explain"
              /\ a_result' = NoAnalysis
         ELSE \* _build_explain_query raises ValueError
              /\ a_loc' = [NoAnalysisLocals EXCEPT !.db_type = db_type,
                              !.failed = "build",
                              !.error = "Unsupported database type: " \o db_type]
              /\ IF AnalysisInTry("build")
                 THEN /\ a_pc' = "returned"
                      /\ a_result' = FailureResult(
                             "Unsupported database type: " \o db_type)
                 ELSE /\ a_pc' = "raised"
                      /\ a_result' = NoAnalysis
    /\ UNCHANGED a_blocked_count

\* explainFn raises
ExplainFails ==
    /\ UNCHANGED NotAnalyzer
    /\ a_pc = "explain"
    /\ \E e \in ExplainErrors : AnalysisRaise("explain", e)
    /\ UNCHANGED <<analysis_count, a_blocked_count>>

\* explainFn returns None: re.search raises TypeError
ExplainReturnsNone ==
    /\ UNCHANGED NotAnalyzer
    /\ a_pc = "explain"
    /\ AnalysisRaise("parse", "expected string or bytes-like object")
    /\ UNCHANGED <<analysis_count, a_blocked_count>>

\* explainFn returns a plan text; it is parsed and the verdict is set
ExplainDone ==
    /\ UNCHANGED NotAnalyzer
    /\ a_pc = "explain"
    /\ \E plan \in PlanTexts :
         IF a_loc.db_type = "postgresql" /\ parse_postgresql_plan_raises(plan)
         THEN /\ AnalysisRaise("parse", "could not convert string to float")
              /\ UNCHANGED a_blocked_count
         ELSE LET analysis ==
                      CASE a_loc.db_type = "oracle" -> parse_oracle_plan(plan)
                        [] a_loc.db_type = "mysql" -> parse_mysql_plan(plan)
                        [] OTHER -> parse_postgresql_plan(plan)
                  acceptable == is_acceptable(analysis)
              IN  /\ a_result' = [analysis EXCEPT !.is_acceptable = acceptable]
                  /\ a_blocked_count' =
                         IF acceptable THEN a_blocked_count
                         ELSE a_blocked_count + 1
                  /\ a_pc' = "returned"
                  /\ UNCHANGED a_loc
    /\ UNCHANGED analysis_count

AnalyzerNext ==
    \/ AnalyzeCall
    \/ ExplainFails
    \/ ExplainReturnsNone
    \/ ExplainDone

----------------------------------------------------------------------------
(* The PostgreSQL comparison query, evaluated on the rows of the two temp  *)
(* tables (key column id, one further column val)                          *)

\* NULL of SQL in the key column; the keys are 1..MaxKey
Null == 0

\* the largest key
MaxKey == 2

\* the most rows of a temp table
MaxRows == 2

\* the tables of the model: rows with a key or NULL and a value
Tables ==
    {tbl \in SUBSET [id : 1..MaxKey \cup {Null}, val : {"a", "b"}] :
        Cardinality(tbl) <= MaxRows}

\* the side of an outer join that has no row
NullRow == [id |-> Null, val |-> "NULL"]

\* s.id = t.id: true only for two equal non-NULL values
sql_equal(a, b) == a # Null /\ b # Null /\ a = b

\* COALESCE(a, b)
coalesce(a, b) == IF a # Null THEN a ELSE b

\* FROM source s FULL OUTER JOIN target t ON s.id = t.id
full_outer_join(source, target) ==
    {[s |-> p[1], t |-> p[2]] :
        p \in {q \in source \X target : sql_equal(q[1].id, q[2].id)}}
    \cup {[s |-> s, t |-> NullRow] :
             s \in {x \in source : \A t \in target : ~sql_equal(x.id, t.id)}}
    \cup {[s |-> NullRow, t |-> t] :
             t \in {x \in target : \A s \in source : ~sql_equal(s.id, x.id)}}

\* _build_comparison_query for postgresql: the rows of the mismatch table,
\* each with the joined rows s, t it was computed from
postgresql_mismatch(source, target) ==
    {[mismatch_type |-> IF j.s.id = Null THEN "missing_in_source"
                        ELSE IF j.t.id = Null THEN "missing_in_target"
                        ELSE "value_mismatch",
      id |-> coalesce(j.s.id, j.t.id),
      s |-> j.s, t |-> j.t] :
        j \in {x \in full_outer_join(source, target) :
                  x.s.id = Null \/ x.t.id = Null}}

DiffIdle ==
    /\ d_pc = "idle"
    /\ d_source = {}
    /\ d_target = {}
    /\ d_mismatch = {}


----------------------------------------------------------------------------
(* The validator as a state machine: one call of validate per step         *)

\* the pieces the queries of the model are put together from
KW_insert == <<"i","n","s","e","r","t">>

\* an identifier that embeds a deny-listed keyword
KW_inserted == <<"i","n","s","e","r","t","e","d">>

Atoms ==
    {KW_SELECT, KW_WITH, KW_insert, KW_inserted, KW_DROP, KW_INTO, KW_UNION,
     <<"_">>, <<" ">>, <<"\n">>, <<";">>, <<"'">>, <<"\"">>,
     <<"/", "*">>, <<"*", "/">>, <<"-", "-">>}

\* the longest query, in atoms
MaxAtoms == 3

\* the number of validate calls on one QueryValidator instance
MaxValidations == 2

RECURSIVE Flatten(_)
Flatten(t) == IF t = <<>> THEN <<>> ELSE t[1] \o Flatten(Tail(t))

Queries == {Flatten(t) : t \in UNION {[1..n -> Atoms] : n \in 0..MaxAtoms}}

NoResult ==
    [is_safe |-> FALSE, violations |-> <<>>, sanitized_query |-> None,
     query_type |-> <<>>]

\* no QueryValidator, DatabaseComparer or ComparisonConfig object yet
NoObject == [none |-> TRUE]

\* the local variables of compare_database_tables
NoToolLocals ==
    [db_type |-> "", query_validator |-> NoObject, validated |-> <<>>,
     source_validation |-> NoResult, target_validation |-> NoResult,
     analyses |-> <<>>, logged |-> <<>>,
     comparer |-> NoObject, config |-> NoObject]

\* compare_database_tables was not called
ToolIdle ==
    /\ o_pc = "idle"
    /\ o_role = "anonymous"
    /\ o_configured = FALSE
    /\ o_args = NoObject
    /\ o_loc = NoToolLocals
    /\ o_return = NoMessage

ValidatorIdle ==
    /\ validation_count = 0
    /\ blocked_count = 0
    /\ v_result = NoResult

ValidatorInit ==
    /\ query \in Queries
    /\ ValidatorIdle
    /\ ComparerIdle
    /\ AnalyzerIdle
    /\ StatsIdle
    /\ ConcurrentIdle
    /\ ToolIdle
    /\ DiffIdle

\* validator.validate(query)
Validate ==
    /\ validation_count < MaxValidations
    /\ validation_count' = validation_count + 1
    /\ LET result == validate(query)
       IN  /\ v_result' = result
           /\ blocked_count' =
                  IF strip(query) # <<>> /\ ~result.is_safe
                  THEN blocked_count + 1
                  ELSE blocked_count
    /\ UNCHANGED <<query, NotValidator>>

ValidatorNext == Validate

ValidatorSpec == ValidatorInit /\ [][ValidatorNext]_vars

----------------------------------------------------------------------------
(* The validator on queries that are whitespace and comments followed by   *)
(* SELECT or WITH                                                          *)

\* what may stand before the statement keyword: a blank, a newline, a block
\* comment, a line comment with its newline
LeadingPieces ==
    {<<" ">>, <<"\n">>, <<"/", "*", "_", "*", "/">>, <<"-", "-", "_", "\n">>}

\* the number of pieces before the keyword
MaxLeading == 3

\* the sequences of at most MaxLeading pieces
Leadings ==
    {Flatten(t) : t \in UNION {[1..n -> LeadingPieces] : n \in 0..MaxLeading}}

LeadingQueries ==
    {l \o ALLOWED_STARTS[k] : l \in Leadings, k \in 1..Len(ALLOWED_STARTS)}

LeadingInit ==
    /\ query \in LeadingQueries
    /\ ValidatorIdle
    /\ ComparerIdle
    /\ AnalyzerIdle
    /\ StatsIdle
    /\ ConcurrentIdle
    /\ ToolIdle
    /\ DiffIdle

LeadingSpec == LeadingInit /\ [][ValidatorNext]_vars

----------------------------------------------------------------------------
(* The comparer as a state machine: one step per awaited executeFn call    *)

ComparerInit ==
    /\ query = <<>>
    /\ ValidatorIdle
    /\ ComparerIdle
    /\ AnalyzerIdle
    /\ StatsIdle
    /\ ConcurrentIdle
    /\ ToolIdle
    /\ DiffIdle

ComparerSpec == ComparerInit /\ [][ComparerNext]_vars

----------------------------------------------------------------------------
(* The analyzer as a state machine                                         *)

AnalyzerInit == ComparerInit

AnalyzerSpec == AnalyzerInit /\ [][AnalyzerNext]_vars

----------------------------------------------------------------------------
(* The statistics step on every list of rows                               *)

StatsInit ==
    /\ query = <<>>
    /\ ValidatorIdle
    /\ ComparerIdle
    /\ AnalyzerIdle
    /\ s_pc = "called"
    /\ s_rows \in StatsInputs
    /\ s_result = NoComparison
    /\ ConcurrentIdle
    /\ ToolIdle
    /\ DiffIdle

StatsSpec == StatsInit /\ [][StatsNext]_vars

----------------------------------------------------------------------------
(* Two tasks, on one shared instance or on one instance each               *)

ConcurrentInit ==
    /\ query = <<>>
    /\ ValidatorIdle
    /\ ComparerIdle
    /\ AnalyzerIdle
    /\ StatsIdle
    /\ k_shared \in BOOLEAN
    /\ k_clock = 0
    /\ k_registry = [i \in Tasks |-> <<>>]
    /\ k_task = [t \in Tasks |-> NoTask]
    /\ ToolIdle
    /\ DiffIdle

ConcurrentSpec == ConcurrentInit /\ [][ConcurrentNext]_vars

----------------------------------------------------------------------------
(* The tool compare_database_tables, one step per check                    *)

\* the role of the caller, as get_user_info reports it
Roles == {"admin", "user", "anonymous"}

\* @require_roles(['admin', 'user'])
AllowedRoles == {"admin", "user"}

\* settings.comparison_databases: the type of every configured database
ComparisonDatabases ==
    [oracle_prod |-> "oracle", oracle_test |-> "oracle",
     postgres_prod |-> "postgresql"]

\* the database names a caller passes
DatabaseNames == DOMAIN ComparisonDatabases \cup {"nonexistent_db"}

\* the pieces the queries passed to the tool are put together from
ToolAtoms == {KW_SELECT, KW_DROP, <<" ">>, <<";">>}

\* the longest query passed to the tool, in atoms
MaxToolAtoms == 2

ToolQueries ==
    {Flatten(t) : t \in UNION {[1..n -> ToolAtoms] : n \in 0..MaxToolAtoms}}

\* the arguments of compare_database_tables
ToolArgs ==
    [source_database : DatabaseNames, target_database : DatabaseNames,
     source_query : ToolQueries, target_query : ToolQueries,
     key_columns : {<<"id">>}, compare_columns : {None}]

\* QueryValidator.validate on the validator object of the tool
validator_after(v, q) ==
    [validation_count |-> v.validation_count + 1,
     blocked_count |->
         IF strip(q) # <<>> /\ ~validate(q).is_safe
         THEN v.blocked_count + 1
         ELSE v.blocked_count]

\* the wrapper of require_roles: the tool body runs for an allowed role
RequireRoles ==
    /\ o_pc = "requested"
    /\ IF o_role = "admin" \/ o_role \in AllowedRoles
       THEN o_pc' = "called" /\ UNCHANGED o_return
       ELSE o_pc' = "returned" /\ o_return' = "insufficient_permissions"
    /\ UNCHANGED <<o_role, o_configured, o_args, o_loc, NotTool>>

\* the same step without the comparison of the two types
CheckDatabases_anyTypes ==
    /\ o_pc = "called"
    /\ LET refused ==
               IF ~o_configured
               THEN "No databases configured"
               ELSE IF o_args.source_database \notin DOMAIN ComparisonDatabases
               THEN "Source database not found"
               ELSE IF o_args.target_database \notin DOMAIN ComparisonDatabases
               THEN "Target database not found"
               ELSE NoMessage
       IN  IF refused # NoMessage
           THEN o_pc' = "returned" /\ o_return' = refused /\ UNCHANGED o_loc
           ELSE /\ o_pc' = "validate_source"
                /\ o_loc' = [o_loc EXCEPT
                       !.db_type = ComparisonDatabases[o_args.source_database],
                       !.query_validator =
                           [validation_count |-> 0, blocked_count |-> 0]]
                /\ UNCHANGED o_return
    /\ UNCHANGED <<o_role, o_configured, o_args, NotTool>>

\* the databases are looked up and their types compared
CheckDatabases ==
    /\ o_pc = "called"
    /\ LET refused ==
               IF ~o_configured
               THEN "No databases configured"
               ELSE IF o_args.source_database \notin DOMAIN ComparisonDatabases
               THEN "Source database not found"
               ELSE IF o_args.target_database \notin DOMAIN ComparisonDatabases
               THEN "Target database not found"
               ELSE IF ComparisonDatabases[o_args.source_database]
                           # ComparisonDatabases[o_args.target_database]
               THEN "Database types must match"
               ELSE NoMessage
       IN  IF refused # NoMessage
           THEN o_pc' = "returned" /\ o_return' = refused /\ UNCHANGED o_loc
           ELSE /\ o_pc' = "validate_source"
                /\ o_loc' = [o_loc EXCEPT
                       !.db_type = ComparisonDatabases[o_args.source_database],
                       !.query_validator =
                           [validation_count |-> 0, blocked_count |-> 0]]
                /\ UNCHANGED o_return
    /\ UNCHANGED <<o_role, o_configured, o_args, NotTool>>

\* the same step without the return on an unsafe source query
ValidateSource_goesOn ==
    /\ o_pc = "validate_source"
    /\ o_loc' = [o_loc EXCEPT
           !.source_validation = validate(o_args.source_query),
           !.validated = Append(@, o_args.source_query),
           !.query_validator = validator_after(@, o_args.source_query)]
    /\ o_pc' = "validate_target"
    /\ UNCHANGED <<o_role, o_configured, o_args, o_return, NotTool>>

\* source_validation = query_validator.validate(source_query)
ValidateSource ==
    /\ o_pc = "validate_source"
    /\ o_loc' = [o_loc EXCEPT
           !.source_validation = validate(o_args.source_query),
           !.validated = Append(@, o_args.source_query),
           !.query_validator = validator_after(@, o_args.source_query)]
    /\ IF ~validate(o_args.source_query).is_safe
       THEN o_pc' = "returned" /\ o_return' = "Source Query Blocked"
       ELSE o_pc' = "validate_target" /\ UNCHANGED o_return
    /\ UNCHANGED <<o_role, o_configured, o_args, NotTool>>

\* target_validation = query_validator.validate(target_query)
ValidateTarget ==
    /\ o_pc = "validate_target"
    /\ o_loc' = [o_loc EXCEPT
           !.target_validation = validate(o_args.target_query),
           !.validated = Append(@, o_args.target_query),
           !.query_validator = validator_after(@, o_args.target_query),
           !.logged = IF validate(o_args.target_query).is_safe
                      THEN Append(@, "Queries validated")
                      ELSE @]
    /\ IF ~validate(o_args.target_query).is_safe
       THEN o_pc' = "returned" /\ o_return' = "Target Query Blocked"
       ELSE o_pc' = "compare" /\ UNCHANGED o_return
    /\ UNCHANGED <<o_role, o_configured, o_args, NotTool>>

\* checks 2 and 3 are logged as passed; comparer = DatabaseComparer();
\* config = ComparisonConfig(...); the result template is returned
BuildConfig ==
    /\ o_pc = "compare"
    /\ o_loc' = [o_loc EXCEPT
           !.logged = @ \o <<"Databases available",
                             "Execution plans acceptable">>,
           !.comparer = [comparison_count |-> 0, temp_tables_created |-> <<>>],
           !.config =
               [source_query |-> o_loc.source_validation.sanitized_query,
                target_query |-> o_loc.target_validation.sanitized_query,
                key_columns |-> o_args.key_columns,
                compare_columns |-> o_args.compare_columns]]
    /\ o_pc' = "returned"
    /\ o_return' = "Ready to execute"
    /\ UNCHANGED <<o_role, o_configured, o_args, NotTool>>

ToolNext ==
    \/ RequireRoles
    \/ CheckDatabases
    \/ ValidateSource
    \/ ValidateTarget
    \/ BuildConfig

ToolInit ==
    /\ query = <<>>
    /\ ValidatorIdle
    /\ ComparerIdle
    /\ AnalyzerIdle
    /\ StatsIdle
    /\ ConcurrentIdle
    /\ o_pc = "requested"
    /\ o_role \in Roles
    /\ o_configured \in BOOLEAN
    /\ o_args \in ToolArgs
    /\ o_loc = NoToolLocals
    /\ o_return = NoMessage
    /\ DiffIdle

ToolSpec == ToolInit /\ [][ToolNext]_vars

----------------------------------------------------------------------------
(* The comparison query as a step                                          *)

\* executeFn runs the comparison query on the two temp tables
RunComparisonQuery ==
    /\ d_pc = "created"
    /\ d_mismatch' = postgresql_mismatch(d_source, d_target)
    /\ d_pc' = "compared"
    /\ UNCHANGED <<d_source, d_target, NotDiff>>

DiffNext == RunComparisonQuery

DiffInit ==
    /\ query = <<>>
    /\ ValidatorIdle
    /\ ComparerIdle
    /\ AnalyzerIdle
    /\ StatsIdle
    /\ ConcurrentIdle
    /\ ToolIdle
    /\ d_pc = "created"
    /\ d_source \in Tables
    /\ d_target \in Tables
    /\ d_mismatch = {}

DiffSpec == DiffInit /\ [][DiffNext]_vars

----------------------------------------------------------------------------
(* Properties of the validator                                             *)

\* the query as validate sees it after query.strip()
Stripped == strip(query)

HasViolation(kind) ==
    \E i \in 1..Len(v_result.violations) : v_result.violations[i].kind = kind

\* the number of 'Dangerous keyword' violations that name keyword K
KeywordViolations(K) ==
    Cardinality({i \in 1..Len(v_result.violations) :
                    v_result.violations[i] = Violation("Dangerous keyword", K)})

\* K stands in s at position i as a whole word, in any letter case
WholeWordAt(s, K, i) ==
    /\ i + Len(K) - 1 <= Len(s)
    /\ \A j \in 1..Len(K) : UpperChar(s[i + j - 1]) = K[j]
    /\ (i = 1 \/ ~IsWordChar(s[i - 1]))
    /\ (i + Len(K) = Len(s) + 1 \/ ~IsWordChar(s[i + Len(K)]))

WholeWordAnyCase(s, K) == \E i \in 1..Len(s) : WholeWordAt(s, K, i)

\* SELECT ... INTO: the word INTO somewhere after the word SELECT
SelectThenInto(s) ==
    \E i \in 1..Len(s), j \in 1..Len(s) :
        i < j /\ WholeWordAt(s, KW_SELECT, i) /\ WholeWordAt(s, KW_INTO, j)

\* K occurs in s in any letter case, as a word or inside a longer one
OccursAnyCase(s, K) ==
    \E i \in 1..(Len(s) - Len(K) + 1) :
        \A j \in 1..Len(K) : UpperChar(s[i + j - 1]) = K[j]

DenyListed == {DANGEROUS_KEYWORDS[k] : k \in 1..Len(DANGEROUS_KEYWORDS)}

\* what is left of s after all its leading whitespace and comments
RECURSIVE SkipLeading(_)
SkipLeading(s) ==
    IF s = <<>> THEN s
    ELSE IF s[1] \in Whitespace THEN SkipLeading(Tail(s))
    ELSE IF StripLeadingBlockComment(s) # s
         THEN SkipLeading(StripLeadingBlockComment(s))
    ELSE IF startswith(s, <<"-", "-">>)
         THEN LET nls == {n \in 3..Len(s) : s[n] = "\n"}
              IN  IF nls = {} THEN <<>>
                  ELSE SkipLeading(SubSeq(s, Min(nls) + 1, Len(s)))
    ELSE s

\* the first word of the query after leading whitespace and comments
LeadingWord == FirstWord(SkipLeading(upper(Stripped)))

\* the query without its quoted string literals
WithoutLiterals == RemoveQuoted(RemoveQuoted(Stripped, "'"), "\"")

\* C4: a query that, after its quoted string literals are removed, has a
\* semicolon anywhere but as its single final character is never reported
\* safe.
C4_MultiStatementRejected ==
    (validation_count > 0 /\ Stripped # <<>>
        /\ \E i \in 1..(Len(WithoutLiterals) - 1) : WithoutLiterals[i] = ";")
    => ~v_result.is_safe

\* C5: a query holding a deny-listed keyword as a whole word, in any letter
\* case, is unsafe, has no sanitized query, and has exactly one violation
\* naming each such keyword; so has a query whose reported leading keyword
\* is deny-listed.
C5_DenyListedKeywordBlocked ==
    validation_count > 0 =>
        /\ \A K \in DenyListed :
              WholeWordAnyCase(query, K) =>
                  /\ ~v_result.is_safe
                  /\ v_result.sanitized_query = None
                  /\ KeywordViolations(K) = 1
        /\ v_result.query_type \in DenyListed =>
              /\ ~v_result.is_safe
              /\ v_result.sanitized_query = None
              /\ KeywordViolations(v_result.query_type) = 1

\* C5 witness: a lower-case insert and an upper-case DROP, both reported
C5_Witness ==
    /\ validation_count > 0
    /\ WholeWordAnyCase(query, KW_INSERT)
    /\ ~Contains(query, KW_INSERT)
    /\ WholeWordAnyCase(query, KW_DROP)
    /\ KeywordViolations(KW_INSERT) = 1
    /\ KeywordViolations(KW_DROP) = 1
    /\ ~v_result.is_safe

\* C6: a query is reported safe only if its first word, after leading
\* whitespace and comments, is exactly SELECT or WITH; any other leading
\* word gets the 'must start with SELECT or WITH' violation.
C6_OnlySelectOrWith ==
    (validation_count > 0 /\ Stripped # <<>>) =>
        /\ v_result.is_safe => LeadingWord \in {KW_SELECT, KW_WITH}
        /\ (LeadingWord # <<>> /\ LeadingWord \notin {KW_SELECT, KW_WITH})
              => HasViolation("Query must start with SELECT or WITH")

\* C7: is_safe iff there is no violation, sanitized_query is set iff
\* is_safe, and a sanitized query never ends with a semicolon.
C7_ResultInvariant ==
    validation_count > 0 =>
        /\ v_result.is_safe <=> (v_result.violations = <<>>)
        /\ (v_result.sanitized_query # None) <=> v_result.is_safe
        /\ v_result.sanitized_query # None =>
              \/ v_result.sanitized_query = <<>>
              \/ v_result.sanitized_query[Len(v_result.sanitized_query)] # ";"

\* C7 witness: a safe query with a trailing semicolon, which is removed
C7_Witness ==
    /\ validation_count > 0
    /\ v_result.is_safe
    /\ Stripped[Len(Stripped)] = ";"
    /\ v_result.sanitized_query = SubSeq(Stripped, 1, Len(Stripped) - 1)

\* C8: a query whose leading keyword is SELECT, with no deny-listed keyword
\* as a whole word, no SELECT ... INTO and at most one semicolon, which is
\* trailing, is safe and its sanitized query is the input without the
\* surrounding whitespace and the trailing semicolon.
C8_CleanSelectAccepted ==
    (/\ validation_count > 0
     /\ LeadingWord = KW_SELECT
     /\ \A K \in DenyListed : ~WholeWordAnyCase(query, K)
     /\ ~SelectThenInto(Stripped)
     /\ \A i \in 1..(Len(Stripped) - 1) : Stripped[i] # ";")
    => (/\ v_result.is_safe
        /\ v_result.sanitized_query =
               IF Stripped[Len(Stripped)] = ";"
               THEN SubSeq(Stripped, 1, Len(Stripped) - 1)
               ELSE Stripped)

\* a SELECT over plain column names: words separated by whitespace, none
\* of them holding UNION
PlainSelect ==
    /\ startswith(upper(Stripped), KW_SELECT \o <<" ">>)
    /\ \A i \in 1..Len(Stripped) : Stripped[i] \in WordChars \cup Whitespace
    /\ ~WholeWordAnyCase(Stripped, KW_INTO)
    /\ ~OccursAnyCase(Stripped, KW_UNION)

----------------------------------------------------------------------------
(* Properties of DatabaseComparer                                          *)

\* the statements of seq, in order, are the DROPs of the names of names
DropsOf(db_type, names) ==
    [i \in 1..Len(names) |-> drop_sql(db_type, names[i])]

\* C1: when an invocation of executeFn raises during compare_tables, the
\* call still returns: its result has match_status "error", every count
\* zero, no temp table name, the text of the exception as error_message and
\* an elapsed time that is not negative; the exception does not reach the
\* caller.
C1_ExecuteErrorBecomesErrorResult ==
    c_loc.error \in ErrorTexts =>
        /\ c_pc = "returned"
        /\ c_result.comparison_time_sec >= 0
        /\ c_result =
               ComparisonResult("error", 0, 0, 0, 0, 0, 0,
                                c_result.comparison_time_sec, NoName,
                                c_loc.error)

\* the mismatch statistics query raises after all three tables were
\* registered and some time has passed
C1_Witness ==
    /\ c_pc = "returned"
    /\ c_loc.failed = "stats"
    /\ c_loc.error \in ErrorTexts
    /\ Len(temp_tables_created) >= 3
    /\ c_result.match_status = "error"
    /\ c_result.comparison_time_sec > 0

\* C2 as stated: after cleanup_temp_tables returns, whatever the dialect
\* it was called with, the registry is empty and a DROP was issued for every
\* name that was registered.
C2_CleanupDropsEveryName ==
    cl_pc = "returned" =>
        /\ temp_tables_created = <<>>
        /\ \A i \in 1..Len(cl_loc.registered) :
             \E j \in 1..Len(cl_drops) :
                 cl_drops[j] = drop_sql(cl_loc.db_type, cl_loc.registered[i])

\* C2 amended: after cleanup_temp_tables returns the registry is empty
\* whatever the dialect; when the dialect is oracle, mysql or postgresql the
\* statements it issued are exactly one DROP for every registered name, in
\* registry order, also when some of the DROPs raised.
C2_CleanupDropsEveryNameOfSupportedDialect ==
    cl_pc = "returned" =>
        /\ temp_tables_created = <<>>
        /\ cl_loc.db_type \in SupportedTypes =>
               cl_drops = DropsOf(cl_loc.db_type, cl_loc.registered)

\* a cleanup of three names whose first DROP raised
C2_Witness ==
    /\ cl_pc = "returned"
    /\ cl_loc.db_type \in SupportedTypes
    /\ Len(cl_loc.registered) >= 3
    /\ 1 \in cl_loc.failures
    /\ Len(cl_drops) = Len(cl_loc.registered)
    /\ temp_tables_created = <<>>

\* C3: when compare_tables has returned, every temp table it created has
\* been the target of a DROP, without a further call by the caller.
C3_AutomaticCleanup ==
    c_pc = "returned" =>
        \A i \in 1..Len(c_loc.created) :
            \E j \in 1..Len(c_stmts) :
                c_stmts[j] = drop_sql(c_loc.db_type, c_loc.created[i])

----------------------------------------------------------------------------
(* Properties of ExecutionPlanAnalyzer                                     *)

\* C10: when analyze_query_cost cannot obtain or parse a plan (the dialect
\* is unsupported, explainFn raises, or the plan text cannot be parsed) it
\* still returns: the analysis has is_acceptable false, cost level
\* EXCESSIVE and an error_message that carries the text of the failure; the
\* exception does not reach the caller.
C10_FailedAnalysisIsUnacceptable ==
    a_loc.failed /= "" =>
        /\ a_pc = "returned"
        /\ ~a_result.is_acceptable
        /\ a_result.cost_level = "EXCESSIVE"
        /\ a_result.error_message = "Plan analysis failed: " \o a_loc.error

\* the second analysis of an analyzer fails on an unsupported dialect
C10_Witness ==
    /\ a_pc = "returned"
    /\ analysis_count = 2
    /\ a_loc.failed = "build"
    /\ a_loc.db_type \notin SupportedTypes
    /\ ~a_result.is_acceptable
    /\ a_result.cost_level = "EXCESSIVE"

\* C11: every PlanAnalysis analyze_query_cost returns, on the normal path
\* and on the failure path alike, has cost level EXCESSIVE exactly when its
\* estimated time is over MAX_EXECUTION_TIME_SEC.
C11_ExcessiveIffOverLimit ==
    a_pc = "returned" =>
        (a_result.cost_level = "EXCESSIVE"
            <=> a_result.estimated_time_ms > MAX_EXECUTION_TIME_SEC * 1000)

\* C12: for each of the three dialects, an analysis whose time estimated
\* from the parsed plan is over 300 seconds has cost level EXCESSIVE and is
\* not acceptable, and one whose estimate is at most 300 seconds (300
\* included) is acceptable, although every dialect parser hands its analysis
\* over as acceptable.
C12_ThresholdDecidesVerdict ==
    (a_pc = "returned" /\ a_loc.failed = "") =>
        /\ a_loc.db_type \in SupportedTypes
        /\ a_result.estimated_time_ms > MAX_EXECUTION_TIME_SEC * 1000 =>
               a_result.cost_level = "EXCESSIVE" /\ ~a_result.is_acceptable
        /\ a_result.estimated_time_ms <= MAX_EXECUTION_TIME_SEC * 1000 =>
               a_result.is_acceptable

\* a MySQL join whose row product puts the estimate over the limit is blocked
C12_Witness ==
    /\ a_pc = "returned"
    /\ a_loc.failed = ""
    /\ a_loc.db_type = "mysql"
    /\ a_result.estimated_time_ms > MAX_EXECUTION_TIME_SEC * 1000
    /\ a_result.cost_level = "EXCESSIVE"
    /\ ~a_result.is_acceptable
    /\ a_blocked_count >= 1

\* the plan text holds no number the parser of the dialect can use
NoUsableNumbers(plan) == plan.cost < 0 /\ plan.rows = <<>>

\* C13: when explainFn succeeds but the parser of the dialect finds no cost
\* and no row numbers in the plan, the analysis is a failure: it is not
\* acceptable and carries an error message.
C13_EmptyParseIsUnacceptable ==
    (a_pc = "returned" /\ a_loc.failed = "" /\ NoUsableNumbers(a_result.raw_plan))
        => (~a_result.is_acceptable /\ a_result.error_message /= NoMessage)

\* C14: every result of compare_tables that is not an error result has
\* match_status "identical" exactly when missing_in_target,
\* missing_in_source and mismatched_rows add up to 0, whatever rows the
\* statistics query returned.
C14_IdenticalIffNoMismatch ==
    (c_pc = "returned" /\ c_result.match_status /= "error") =>
        (c_result.match_status = "identical"
            <=> c_result.missing_in_target + c_result.missing_in_source
                    + c_result.mismatched_rows = 0)

\* the count the rows report for a mismatch type, 0 when they report none
Reported(rows, t) ==
    IF \E i \in 1..Len(rows) : rows[i].mismatch_type = t
    THEN (CHOOSE row \in {rows[i] : i \in 1..Len(rows)} :
              row.mismatch_type = t).count
    ELSE 0

\* C15: when the statistics query reports at most one row for each mismatch
\* type, as dicts or as lists/tuples, the result carries exactly the counts
\* reported for missing_in_target, missing_in_source and value_mismatch (0
\* for a type not reported) and is "mismatch" when a count is positive;
\* when it reports no rows the result is "identical" with three zeros.
C15_ReportedCountsAreReturned ==
    (s_pc = "returned" /\ s_rows \in Reports) =>
        /\ s_result.missing_in_target = Reported(s_rows, "missing_in_target")
        /\ s_result.missing_in_source = Reported(s_rows, "missing_in_source")
        /\ s_result.mismatched_rows = Reported(s_rows, "value_mismatch")
        /\ (\E i \in 1..Len(s_rows) : s_rows[i].count > 0)
               => s_result.match_status = "mismatch"
        /\ s_rows = <<>> =>
               /\ s_result.match_status = "identical"
               /\ s_result.missing_in_target = 0
               /\ s_result.missing_in_source = 0
               /\ s_result.mismatched_rows = 0

\* the report {missing_in_target: 20, missing_in_source: 5, value_mismatch:
\* 20}, with rows of both shapes
C15_Witness ==
    /\ s_pc = "returned"
    /\ s_rows \in Reports
    /\ Len(s_rows) = 3
    /\ \E i, j \in 1..3 : s_rows[i].shape = "dict" /\ s_rows[j].shape = "tuple"
    /\ s_result.match_status = "mismatch"
    /\ s_result.missing_in_target = 20
    /\ s_result.missing_in_source = 5
    /\ s_result.mismatched_rows = 20

\* the step compare_tables has reached: the statement it awaits, the step
\* that failed, or "done" after a normal return
Stage ==
    IF c_pc = "returned"
    THEN IF c_loc.failed = "" THEN "done" ELSE c_loc.failed
    ELSE c_pc

\* the temp objects whose creating statement has succeeded at a stage
CreatedAt(loc, stage) ==
    CASE stage = "create_src" -> <<>>
      [] stage = "create_tgt" -> <<loc.temp_source>>
      [] stage \in {"count_src", "count_tgt", "build", "diff"} ->
             <<loc.temp_source, loc.temp_target>>
      [] OTHER -> <<loc.temp_source, loc.temp_target, loc.temp_mismatch>>

\* C16: all through a compare_tables call and when it has returned, the
\* registry is the registry of the moment of the call followed by the names
\* of the objects whose creating statement has succeeded in this call, in
\* creation order: a name is registered only after its creation succeeded,
\* nothing is removed, all three names are there after a success and only
\* those created before the failing statement after a failure.
C16_RegistryGrowsByCreated ==
    c_pc \in {"create_src", "create_tgt", "count_src", "count_tgt", "diff",
              "stats", "returned"} =>
        temp_tables_created = c_loc.registered \o CreatedAt(c_loc, Stage)

\* a second comparison on a registry that already holds names fails at the
\* comparison query: only its source and target tables were added
C16_Witness ==
    /\ c_pc = "returned"
    /\ c_loc.failed = "diff"
    /\ Len(c_loc.registered) >= 2
    /\ temp_tables_created =
           c_loc.registered \o <<c_loc.temp_source, c_loc.temp_target>>

\* the six statements of one compare_tables call, in the order of the code
StatementPlan(loc) ==
    <<create_sql(loc.db_type, loc.temp_source, loc.config.source_query),
      create_sql(loc.db_type, loc.temp_target, loc.config.target_query),
      count_sql(loc.temp_source), count_sql(loc.temp_target),
      comparison_query(loc.db_type, loc.temp_mismatch),
      stats_sql(loc.temp_mismatch)>>

\* the number of statements passed to executeFn when a stage is reached:
\* the statement awaited or failed is the last of them
InvokedAt(loc, stage) ==
    CASE stage = "create_src" ->
             IF loc.db_type \in SupportedTypes THEN 1 ELSE 0
      [] stage = "create_tgt" -> 2
      [] stage = "count_src" -> 3
      [] stage \in {"count_tgt", "build"} -> 4
      [] stage = "diff" -> 5
      [] OTHER -> 6

\* C17: within one compare_tables call the statements passed to executeFn
\* are a prefix of create-source, create-target, count-source, count-target,
\* comparison query, statistics query; while a statement is awaited it is
\* the only one outstanding (all statements before it have completed and
\* none after it has been passed), and after the first failure no further
\* statement is passed.
C17_StatementsInSequence ==
    c_pc \in {"create_src", "create_tgt", "count_src", "count_tgt", "diff",
              "stats", "returned"} =>
        /\ Len(c_stmts) = InvokedAt(c_loc, Stage)
        /\ c_stmts = SubSeq(StatementPlan(c_loc), 1, Len(c_stmts))

\* the count of the target table raised: four statements were passed, the
\* comparison and statistics queries never
C17_Witness ==
    /\ c_pc = "returned"
    /\ c_loc.failed = "count_tgt"
    /\ c_loc.error \in ErrorTexts
    /\ Len(c_stmts) = 4
    /\ c_stmts[4] = count_sql(c_loc.temp_target)

----------------------------------------------------------------------------
(* Properties of concurrent comparisons                                    *)

Started(t) == k_task[t].pc /= "idle"

SameNames(t, u) ==
    \E p \in DOMAIN TaskNames(k_task[t]) :
        TaskNames(k_task[t])[p] = TaskNames(k_task[u])[p]

\* C18: two comparison runs get a common temp-object name only if they
\* started within the same clock-second and with the same (source_query,
\* target_query) pair.
C18_SameNamesOnlyForSamePairAndSecond ==
    \A t, u \in Tasks :
        (t /= u /\ Started(t) /\ Started(u) /\ SameNames(t, u)) =>
            /\ Timestamp(k_task[t].start_time) = Timestamp(k_task[u].start_time)
            /\ k_task[t].config.source_query = k_task[u].config.source_query
            /\ k_task[t].config.target_query = k_task[u].config.target_query

\* a task is inside compare_tables
Running(t) == k_task[t].pc \in Awaits

Names(seq) == {seq[i] : i \in 1..Len(seq)}

\* the cleanup of another task has passed the DROP of an object of a
\* comparison still running to the same instance, or the registry has lost a
\* name that comparison registered
Corrupted(t) ==
    /\ Running(t)
    /\ \/ \E u \in Tasks \ {t} :
              /\ InstanceOf(u) = InstanceOf(t)
              /\ Names(k_task[u].drops) \cap Names(k_task[t].created) /= {}
       \/ ~(Names(k_task[t].created) \subseteq Names(k_registry[InstanceOf(t)]))

\* C19: with one instance for each task, whatever the interleaving, every
\* registry holds only names its own comparison created, and no cleanup
\* touches an object of a comparison that is still running; such a state
\* exists only when the tasks share an instance.
C19_OwnInstanceIsSafe ==
    /\ ~k_shared =>
           \A t \in Tasks :
               Names(k_registry[t]) \subseteq Names(k_task[t].created)
    /\ \A t \in Tasks : Corrupted(t) => k_shared

\* on a shared instance, a task is still inside compare_tables with a table
\* created while the cleanup of the other task has dropped that table and
\* cleared the registry
C19_Witness ==
    /\ k_shared
    /\ \E t \in Tasks, u \in Tasks :
         /\ t /= u
         /\ Running(t)
         /\ k_task[t].config /= k_task[u].config
         /\ k_task[u].pc = "done"
         /\ k_task[t].created /= <<>>
         /\ Names(k_task[t].created) \subseteq Names(k_task[u].drops)
         /\ k_registry[1] = <<>>

----------------------------------------------------------------------------
(* Properties of the tool compare_database_tables                          *)

\* validate was called on the source query, on the target query
SourceValidated == o_loc.source_validation # NoResult

TargetValidated == o_loc.target_validation # NoResult

\* C20: compare_database_tables validates the source query and then the
\* target query and stops at the first failure: the calls of validate are,
\* in this order, the source query and the target query; after an unsafe
\* source query the target query is never validated; after an unsafe query
\* no DatabaseComparer and no ComparisonConfig is built; and a
\* ComparisonConfig holds the sanitized_query of the two results of
\* validate on the two arguments, both of them safe.
C20_ValidateBothThenBuild ==
    /\ o_loc.validated \in
           {<<>>, <<o_args.source_query>>,
            <<o_args.source_query, o_args.target_query>>}
    /\ SourceValidated <=> Len(o_loc.validated) >= 1
    /\ TargetValidated <=> Len(o_loc.validated) = 2
    /\ SourceValidated =>
           o_loc.source_validation = validate(o_args.source_query)
    /\ TargetValidated =>
           o_loc.target_validation = validate(o_args.target_query)
    /\ (SourceValidated /\ ~o_loc.source_validation.is_safe) =>
           /\ ~TargetValidated
           /\ o_loc.query_validator.validation_count = 1
    /\ (\/ SourceValidated /\ ~o_loc.source_validation.is_safe
        \/ TargetValidated /\ ~o_loc.target_validation.is_safe) =>
           /\ o_loc.comparer = NoObject
           /\ o_loc.config = NoObject
    /\ (o_loc.comparer # NoObject \/ o_loc.config # NoObject) =>
           /\ SourceValidated /\ o_loc.source_validation.is_safe
           /\ TargetValidated /\ o_loc.target_validation.is_safe
           /\ o_loc.config # NoObject
           /\ o_loc.config.source_query =
                  validate(o_args.source_query).sanitized_query
           /\ o_loc.config.target_query =
                  validate(o_args.target_query).sanitized_query
           /\ o_loc.config.source_query # None
           /\ o_loc.config.target_query # None

\* the tool returned on an unsafe source query although the target query
\* is a safe one
C20_Witness ==
    /\ o_pc = "returned"
    /\ o_return = "Source Query Blocked"
    /\ ~o_loc.source_validation.is_safe
    /\ validate(o_args.target_query).is_safe

\* the tool built a ComparisonConfig whose queries are not the arguments
\* as they were passed
C20_ConfigBuilt ==
    /\ o_pc = "returned"
    /\ o_return = "Ready to execute"
    /\ o_loc.config # NoObject
    /\ o_loc.config.source_query # o_args.source_query
    /\ o_loc.config.target_query # o_args.target_query

\* both databases are configured and their types differ
TypesDiffer ==
    /\ o_configured
    /\ o_args.source_database \in DOMAIN ComparisonDatabases
    /\ o_args.target_database \in DOMAIN ComparisonDatabases
    /\ ComparisonDatabases[o_args.source_database]
           # ComparisonDatabases[o_args.target_database]

\* the tool constructed a validator, validated a query, ran an analysis or
\* built a comparer or a config
PipelineEntered ==
    \/ o_loc.query_validator # NoObject
    \/ o_loc.validated # <<>>
    \/ o_loc.analyses # <<>>
    \/ o_loc.comparer # NoObject
    \/ o_loc.config # NoObject

\* C21: when the configured types of the source and the target database
\* differ, compare_database_tables returns an error ('Database types must
\* match' for a caller whose role lets the tool body run) and no validator,
\* analyzer or comparer step is ever taken; whenever such a step was taken
\* both databases are configured with one type, the db_type of the call.
C21_DifferentTypesRejected ==
    /\ TypesDiffer =>
           /\ ~PipelineEntered
           /\ o_pc = "returned" =>
                  o_return = IF o_role \in AllowedRoles
                             THEN "Database types must match"
                             ELSE "insufficient_permissions"
    /\ PipelineEntered =>
           /\ o_configured
           /\ o_args.source_database \in DOMAIN ComparisonDatabases
           /\ o_args.target_database \in DOMAIN ComparisonDatabases
           /\ o_loc.db_type = ComparisonDatabases[o_args.source_database]
           /\ o_loc.db_type = ComparisonDatabases[o_args.target_database]

\* a caller with an allowed role passed two safe queries and two configured
\* databases of different types, and the tool returned the error
C21_Witness ==
    /\ TypesDiffer
    /\ o_role \in AllowedRoles
    /\ validate(o_args.source_query).is_safe
    /\ validate(o_args.target_query).is_safe
    /\ o_pc = "returned"
    /\ o_return = "Database types must match"

\* the tool reported the execution-plan check as passed
PlansReportedAcceptable ==
    \E i \in 1..Len(o_loc.logged) :
        o_loc.logged[i] = "Execution plans acceptable"

\* C22: compare_database_tables reports 'Execution plans acceptable' only
\* after analyze_query_cost was run on both queries and returned
\* is_acceptable = TRUE for both, and the comparison step (the comparer and
\* its config) is reached only after the two analyses.
C22_PlansAnalyzedBeforeReport ==
    (PlansReportedAcceptable \/ o_loc.comparer # NoObject) =>
        /\ Len(o_loc.analyses) = 2
        /\ \A i \in 1..Len(o_loc.analyses) : o_loc.analyses[i].is_acceptable

\* C23: the query_type of every ValidationResult validate returns is
\* SELECT, WITH or INVALID.
C23_QueryTypeIsEnum ==
    validation_count > 0 =>
        v_result.query_type \in {KW_SELECT, KW_WITH, KW_INVALID}

\* C24: validate has no side effects: a call leaves validation_count and
\* blocked_count of the QueryValidator instance as they were, and the
\* result it returns for a query is the same at every call.
C24_ValidateIsPure ==
    [][/\ validation_count' = validation_count
       /\ blocked_count' = blocked_count
       /\ v_result' = validate(query)
       /\ validation_count > 0 => v_result' = v_result]_vars

\* the place of a violation in the order of the checks of validate
CheckRank(v) ==
    IF v.kind = "Query must start with SELECT or WITH" THEN 0
    ELSE IF v.kind = "Dangerous keyword"
    THEN CHOOSE k \in 1..Len(DANGEROUS_KEYWORDS) : DANGEROUS_KEYWORDS[k] = v.arg
    ELSE IF v.kind = "SELECT INTO is not allowed"
    THEN Len(DANGEROUS_KEYWORDS) + 1
    ELSE IF v.kind = "Multi-statement queries not allowed"
    THEN Len(DANGEROUS_KEYWORDS) + 2
    ELSE IF v.kind = "Suspicious comments detected"
    THEN Len(DANGEROUS_KEYWORDS) + 3
    ELSE IF v.kind = "UNION with dangerous keywords detected"
    THEN Len(DANGEROUS_KEYWORDS) + 4
    ELSE -1

\* the violation v is listed in the result
Listed(v) ==
    \E i \in 1..Len(v_result.violations) : v_result.violations[i] = v

\* C25: for a non-empty query every one of the six checks of validate is
\* evaluated whatever the checks before it found, and the violations are
\* listed in check order: leading keyword, one per deny-listed keyword in
\* deny-list order, SELECT INTO, multi-statement, suspicious comment, UNION
\* injection, each at most once. For an empty or whitespace-only query the
\* result has the one violation 'Query is empty', query_type INVALID and
\* no sanitized query.
C25_AllChecksInOrder ==
    validation_count > 0 =>
        LET stripped == strip(query)
            u == upper(stripped)
            t == detect_query_type(u)
            listed == v_result.violations
        IN  IF stripped = <<>>
            THEN /\ listed = <<Violation("Query is empty", <<>>)>>
                 /\ v_result.query_type = KW_INVALID
                 /\ v_result.sanitized_query = None
                 /\ ~v_result.is_safe
            ELSE /\ \A i \in 1..Len(listed) : CheckRank(listed[i]) >= 0
                 /\ \A i \in 1..(Len(listed) - 1) :
                        CheckRank(listed[i]) < CheckRank(listed[i + 1])
                 /\ Listed(Violation("Query must start with SELECT or WITH", t))
                        <=> t \notin {KW_SELECT, KW_WITH}
                 /\ \A k \in 1..Len(DANGEROUS_KEYWORDS) :
                        Listed(Violation("Dangerous keyword",
                                         DANGEROUS_KEYWORDS[k]))
                            <=> HasWholeWord(u, DANGEROUS_KEYWORDS[k])
                 /\ Listed(Violation("SELECT INTO is not allowed", <<>>))
                        <=> has_select_into(u)
                 /\ Listed(Violation("Multi-statement queries not allowed",
                                     <<>>))
                        <=> has_multiple_statements(stripped)
                 /\ Listed(Violation("Suspicious comments detected", <<>>))
                        <=> has_suspicious_comments(stripped)
                 /\ Listed(Violation("UNION with dangerous keywords detected",
                                     <<>>))
                        <=> has_union_injection(u)

\* a query that fails the leading-keyword check, the deny-list check and
\* the multi-statement check at once
C25_Witness ==
    /\ validation_count > 0
    /\ Len(v_result.violations) >= 3
    /\ v_result.violations[1].kind = "Query must start with SELECT or WITH"
    /\ v_result.violations[2].kind = "Dangerous keyword"
    /\ Listed(Violation("Multi-statement queries not allowed", <<>>))

\* the query is whitespace and comments followed by the keyword K
LeadingThen(K) == \E l \in Leadings : query = l \o K

\* C26: a query made of any sequence of leading whitespace, block comments
\* and line comments followed by SELECT or WITH gets that keyword as its
\* query_type and no 'must start with SELECT or WITH' violation.
C26_LeadingCommentsSkipped ==
    \A k \in 1..Len(ALLOWED_STARTS) :
        (validation_count > 0 /\ LeadingThen(ALLOWED_STARTS[k])) =>
            /\ v_result.query_type = ALLOWED_STARTS[k]
            /\ ~HasViolation("Query must start with SELECT or WITH")

----------------------------------------------------------------------------
(* Properties of the comparison query                                      *)

\* the rows of a table with key k
RowsOf(tbl, k) == {r \in tbl : r.id = k}

\* every row of the table has a key, and no two rows have the same key
UniqueKeys(tbl) ==
    \A r \in tbl : r.id # Null /\ RowsOf(tbl, r.id) = {r}

\* the mismatch table has a row of the type for key k
Classified(type, k) ==
    \E r \in d_mismatch : r.mismatch_type = type /\ r.id = k

\* C27: for PostgreSQL the comparison query classifies every non-matching
\* key of the two tables (each with unique, non-NULL keys): a key only in
\* the source gets a missing_in_target row, a key only in the target a
\* missing_in_source row, a key on both sides with different values a
\* value_mismatch row, and a key with equal rows on both sides no row.
C27_EveryKeyClassified ==
    (d_pc = "compared" /\ UniqueKeys(d_source) /\ UniqueKeys(d_target)) =>
        \A k \in 1..MaxKey :
            /\ (RowsOf(d_source, k) # {} /\ RowsOf(d_target, k) = {}) =>
                   Classified("missing_in_target", k)
            /\ (RowsOf(d_source, k) = {} /\ RowsOf(d_target, k) # {}) =>
                   Classified("missing_in_source", k)
            /\ (/\ RowsOf(d_source, k) # {}
                /\ RowsOf(d_target, k) # {}
                /\ RowsOf(d_source, k) # RowsOf(d_target, k)) =>
                   Classified("value_mismatch", k)
            /\ (RowsOf(d_source, k) # {}
                    /\ RowsOf(d_source, k) = RowsOf(d_target, k)) =>
                   \A r \in d_mismatch : r.id # k

\* C28: every ComparisonResult compare_tables returns has matching_rows = 0,
\* on the error path and on the success path, whatever the row counts and
\* the mismatch statistics are.
C28_MatchingRowsIsZero ==
    c_pc = "returned" => c_result.matching_rows = 0

\* a comparison of two tables of two rows each returned 'identical'
C28_Witness ==
    /\ c_pc = "returned"
    /\ c_result.match_status = "identical"
    /\ c_result.total_rows_source = 2
    /\ c_result.total_rows_target = 2
    /\ c_result.matching_rows = 0

\* analyze_query_cost returned the analysis of a PostgreSQL plan
PostgresAnalysed ==
    /\ a_pc = "returned"
    /\ a_loc.db_type = "postgresql"
    /\ a_loc.failed = ""

\* C29: for PostgreSQL plans with one total cost the estimated time never
\* decreases as the estimated row count increases: a plan with the same
\* cost and no more rows than the analysed plan is estimated no slower,
\* and if it is blocked by the 300-second limit the analysed plan is too.
C29_TimeMonotoneInRows ==
    PostgresAnalysed =>
        \A p \in PlanTexts :
            (/\ p.cost_ok
             /\ p.cost = a_result.raw_plan.cost
             /\ p.marks = a_result.raw_plan.marks
             /\ parse_postgresql_plan(p).estimated_rows
                    <= a_result.estimated_rows) =>
                /\ parse_postgresql_plan(p).estimated_time_ms
                       <= a_result.estimated_time_ms
                /\ ~is_acceptable(parse_postgresql_plan(p))
                       => ~a_result.is_acceptable

\* cleanup_temp_tables was last called with a dialect that is none of
\* oracle, mysql, postgresql
UnsupportedCleanup ==
    cl_pc # "idle" /\ cl_loc.db_type \notin SupportedTypes

\* C30: cleanup_temp_tables called with a dialect other than oracle, mysql
\* or postgresql returns without raising and without awaiting any call, has
\* issued no DROP statement for any registered name, and has emptied the
\* registry: every name that was registered is undropped and untracked.
C30_UnsupportedDialectDropsNothing ==
    UnsupportedCleanup =>
        /\ cl_pc = "returned"
        /\ cl_drops = <<>>
        /\ temp_tables_created = <<>>

\* a cleanup with dialect sqlite returned on a registry of three names
C30_Witness ==
    /\ cl_pc = "returned"
    /\ cl_loc.db_type = "sqlite"
    /\ Len(cl_loc.registered) = 3
    /\ cl_drops = <<>>
    /\ temp_tables_created = <<>>

============================================================================
